---- MODULE Spec2Model ----
(***************************************************************************)
(* Model of markdown_to_storage, the Markdown -> Confluence storage-format *)
(* renderer of skills/gabia-dev-mcp-confluence/scripts/confluence_cli.py.  *)
(*                                                                         *)
(* Text is a sequence of tokens.  A source character is a one-character    *)
(* string; a tag the renderer emits is one token holding the whole tag     *)
(* ("<p>", "</ul>", "<strong>").  No tag contains a character that any of  *)
(* the renderer's patterns looks for, so the patterns see a tag token as   *)
(* "some other character", as they see the tag's characters in the code.   *)
(* out is the list of fragments the code appends to.                       *)
(***************************************************************************)
EXTENDS Integers, Sequences, FiniteSets, TLC

\* number of lines of the input document (after the optional table head)
MaxLines == 3

----------------------------------------------------------------------------
(* Characters and string helpers                                           *)

WS == {" ", "\t", "\n"}
Digits == {"0", "1", "2"}
\* the grave accent U+0060, which a TLA+ string cannot hold
Backtick == "GRAVE"

RECURSIVE lstrip(_)
lstrip(s) == IF s # <<>> /\ Head(s) \in WS THEN lstrip(Tail(s)) ELSE s

RECURSIVE rstrip(_)
rstrip(s) ==
    IF s # <<>> /\ s[Len(s)] \in WS THEN rstrip(SubSeq(s, 1, Len(s) - 1)) ELSE s

strip(s) == lstrip(rstrip(s))

RECURSIVE lstripChar(_, _)
lstripChar(s, c) == IF s # <<>> /\ Head(s) = c THEN lstripChar(Tail(s), c) ELSE s

RECURSIVE rstripChar(_, _)
rstripChar(s, c) ==
    IF s # <<>> /\ s[Len(s)] = c THEN rstripChar(SubSeq(s, 1, Len(s) - 1), c) ELSE s

Contains(s, c) == \E k \in 1..Len(s) : s[k] = c

\* s[p..] starts with the sequence pre (p is 1-based)
StartsAt(s, p, pre) ==
    /\ p + Len(pre) - 1 <= Len(s)
    /\ \A k \in 1..Len(pre) : s[p + k - 1] = pre[k]

startswith(s, pre) == StartsAt(s, 1, pre)

\* length of the longest run of characters of s, from position p, that
\* satisfy "not equal to c" ([^c]*)
RECURSIVE RunNot(_, _, _)
RunNot(s, p, c) ==
    IF p <= Len(s) /\ s[p] # c THEN 1 + RunNot(s, p + 1, c) ELSE 0

\* length of the longest run of characters in set S from position p
RECURSIVE RunIn(_, _, _)
RunIn(s, p, S) ==
    IF p <= Len(s) /\ s[p] \in S THEN 1 + RunIn(s, p + 1, S) ELSE 0

\* str.replace(c, rep) for a one-character c
RECURSIVE replace(_, _, _)
replace(s, c, rep) ==
    IF s = <<>> THEN <<>>
    ELSE (IF Head(s) = c THEN rep ELSE <<Head(s)>>) \o replace(Tail(s), c, rep)

\* str.split(c)
RECURSIVE split(_, _)
split(s, c) ==
    LET n == RunNot(s, 1, c) IN
    IF n = Len(s) THEN <<s>>
    ELSE <<SubSeq(s, 1, n)>> \o split(SubSeq(s, n + 2, Len(s)), c)

\* "".join(parts)
RECURSIVE concat(_)
concat(parts) == IF parts = <<>> THEN <<>> ELSE Head(parts) \o concat(Tail(parts))

\* sep.join(parts)
RECURSIVE join(_, _)
join(parts, sep) ==
    IF parts = <<>> THEN <<>>
    ELSE IF Len(parts) = 1 THEN parts[1]
    ELSE parts[1] \o sep \o join(Tail(parts), sep)

----------------------------------------------------------------------------
(* markdown_to_storage: nested helpers                                     *)

AMP == <<"&", "a", "m", "p", ";">>
LT == <<"&", "l", "t", ";">>
GT == <<"&", "g", "t", ";">>

\* escape_html that leaves ">" alone
escape_html_no_gt(s) == replace(replace(s, "&", AMP), "<", LT)

escape_html(s) == replace(replace(replace(s, "&", AMP), "<", LT), ">", GT)

\* one regex pass of render_inline, re.sub(open ([^ex]+) close, otag \1 ctag),
\* with an optional one-character negative lookbehind lb ("" for none) and
\* an optional negative lookahead la (<<>> for none).  The body is the
\* longest run of non-ex characters: close starts with ex in every pass, so
\* no shorter body can match.
SpanMatch(s, p, pat) ==
    LET b == p + Len(pat.open)
        n == RunNot(s, b, pat.ex)
    IN  /\ (pat.lb = "" \/ p = 1 \/ s[p - 1] # pat.lb)
        /\ StartsAt(s, p, pat.open)
        /\ n >= 1
        /\ StartsAt(s, b + n, pat.close)
        /\ (pat.la = <<>> \/ ~StartsAt(s, b + n + Len(pat.close), pat.la))

RECURSIVE sub_from(_, _, _)
sub_from(s, p, pat) ==
    IF p > Len(s) THEN <<>>
    ELSE IF SpanMatch(s, p, pat)
    THEN LET b == p + Len(pat.open)
             n == RunNot(s, b, pat.ex)
         IN  <<pat.otag>> \o SubSeq(s, b, b + n - 1) \o <<pat.ctag>>
                 \o sub_from(s, b + n + Len(pat.close), pat)
    ELSE <<s[p]>> \o sub_from(s, p + 1, pat)

\* r"\[([^]]+)\]\(([^)]+)\)" at position p
LinkMatch(s, p) ==
    LET n1 == RunNot(s, p + 1, "]")
        q == p + 1 + n1
        n2 == RunNot(s, q + 2, ")")
    IN  /\ StartsAt(s, p, <<"[">>)
        /\ n1 >= 1
        /\ StartsAt(s, q, <<"]", "(">>)
        /\ n2 >= 1
        /\ StartsAt(s, q + 2 + n2, <<")">>)

RECURSIVE sub_link(_, _)
sub_link(s, p) ==
    IF p > Len(s) THEN <<>>
    ELSE IF LinkMatch(s, p)
    THEN LET n1 == RunNot(s, p + 1, "]")
             q == p + 1 + n1
             n2 == RunNot(s, q + 2, ")")
         IN  <<"<a href=\"">> \o escape_html(SubSeq(s, q + 2, q + 1 + n2))
                 \o <<"\">">> \o SubSeq(s, p + 1, p + n1) \o <<"</a>">>
                 \o sub_link(s, q + 3 + n2)
    ELSE <<s[p]>> \o sub_link(s, p + 1)

PatCode == [lb |-> "", open |-> <<Backtick>>, ex |-> Backtick, close |-> <<Backtick>>,
            la |-> <<>>, otag |-> "<code>", ctag |-> "</code>"]
\* bold pass that emits italic tags
PatBoldStar_as_em == [lb |-> "", open |-> <<"*", "*">>, ex |-> "*", close |-> <<"*", "*">>,
                      la |-> <<>>, otag |-> "<em>", ctag |-> "</em>"]

PatBoldStar == [lb |-> "", open |-> <<"*", "*">>, ex |-> "*", close |-> <<"*", "*">>,
                la |-> <<>>, otag |-> "<strong>", ctag |-> "</strong>"]
PatBoldUnder == [lb |-> "", open |-> <<"_", "_">>, ex |-> "_", close |-> <<"_", "_">>,
                 la |-> <<>>, otag |-> "<strong>", ctag |-> "</strong>"]
PatEmStar == [lb |-> "*", open |-> <<"*">>, ex |-> "*", close |-> <<"*">>,
              la |-> <<"*">>, otag |-> "<em>", ctag |-> "</em>"]
PatEmUnder == [lb |-> "_", open |-> <<"_">>, ex |-> "_", close |-> <<"_">>,
               la |-> <<"_", " ">>, otag |-> "<em>", ctag |-> "</em>"]

render_inline(raw) ==
    LET s0 == escape_html(raw)
        s1 == sub_link(s0, 1)
        s2 == sub_from(s1, 1, PatCode)
        s3 == sub_from(s2, 1, PatBoldStar)
        s4 == sub_from(s3, 1, PatBoldUnder)
        s5 == sub_from(s4, 1, PatEmStar)
    IN  sub_from(s5, 1, PatEmUnder)

\* end of one \s*:?-{3,}:?\s* cell of the separator row from p, 0 if none
SepCell(t, p) ==
    LET a == p + RunIn(t, p, WS)
        b == IF a <= Len(t) /\ t[a] = ":" THEN a + 1 ELSE a
        d == RunIn(t, b, {"-"})
        c == b + d
        e == IF c <= Len(t) /\ t[c] = ":" THEN c + 1 ELSE c
    IN  IF d >= 3 THEN e + RunIn(t, e, WS) ELSE 0

\* position after the longest run of \| cell groups from p
RECURSIVE SepGroups(_, _)
SepGroups(t, p) ==
    IF p <= Len(t) /\ t[p] = "|" /\ SepCell(t, p + 1) # 0
    THEN SepGroups(t, SepCell(t, p + 1))
    ELSE p

is_separator_row(s) ==
    LET t == strip(s)
        p0 == IF t # <<>> /\ t[1] = "|" THEN 2 ELSE 1
        p1 == SepCell(t, p0)
        p2 == SepGroups(t, p1)
        p3 == IF p2 <= Len(t) /\ t[p2] = "|" THEN p2 + 1 ELSE p2
    IN  /\ p1 # 0
        /\ p2 > p1
        /\ p3 + RunIn(t, p3, WS) = Len(t) + 1

parse_cells(s) ==
    LET parts == split(rstripChar(lstripChar(strip(s), "|"), "|"), "|")
    IN  [k \in 1..Len(parts) |-> strip(parts[k])]

\* the line patterns of the loop, on the right-stripped line
IsFence(line) == startswith(line, <<Backtick, Backtick, Backtick>>)

IsRule(line) ==
    LET p == 1 + RunIn(line, 1, WS)
        d == RunIn(line, p, {line[p]})
    IN  /\ p <= Len(line)
        /\ line[p] \in {"*", "-", "_"}
        /\ d >= 3
        /\ p + d + RunIn(line, p + d, WS) = Len(line) + 1

HeadingLevel(line) == RunIn(line, 1, {"#"})

IsHeading(line) ==
    /\ HeadingLevel(line) \in 1..6
    /\ RunIn(line, HeadingLevel(line) + 1, WS) >= 1

HeadingText(line) ==
    LET h == HeadingLevel(line)
    IN  SubSeq(line, h + 1 + RunIn(line, h + 1, WS), Len(line))

\* text after a marker of mlen characters and its whitespace; the line is
\* right-stripped, so the text is empty only if nothing follows the marker
ItemText(line, mlen) ==
    SubSeq(line, mlen + 1 + RunIn(line, mlen + 1, WS), Len(line))

IsUl(line) ==
    /\ line # <<>>
    /\ line[1] \in {"-", "*"}
    /\ RunIn(line, 2, WS) >= 1
    /\ ItemText(line, 1) # <<>>

OlMarker(line) == RunIn(line, 1, Digits) + 1

IsOl(line) ==
    /\ OlMarker(line) >= 2
    /\ StartsAt(line, OlMarker(line), <<".">>)
    /\ RunIn(line, OlMarker(line) + 1, WS) >= 1
    /\ ItemText(line, OlMarker(line)) # <<>>

\* close_para, close_lists, close_quote: the fragments list after the call
\* (the caller clears the flags)
close_para(o, para) == IF para THEN Append(o, <<"</p>">>) ELSE o

\* close_lists that forgets the ordered list
close_lists_ul_only(o, ul, ol) == IF ul THEN Append(o, <<"</ul>">>) ELSE o

close_lists(o, ul, ol) ==
    LET o1 == IF ul THEN Append(o, <<"</ul>">>) ELSE o
    IN  IF ol THEN Append(o1, <<"</ol>">>) ELSE o1

close_quote(o, quote) == IF quote THEN Append(o, <<"</blockquote>">>) ELSE o

\* closing of the open contexts that forgets the blockquote
CloseAll_no_quote(o, para, ul, ol, quote) ==
    close_lists(close_para(o, para), ul, ol)

CloseAll(o, para, ul, ol, quote) ==
    close_quote(close_lists(close_para(o, para), ul, ol), quote)

\* row consumption that takes one row at most
RowsEnd_one_row(ls, j) ==
    IF j < Len(ls) /\ Contains(ls[j + 1], "|") /\ ~startswith(lstrip(ls[j + 1]), <<"#">>)
    THEN j + 1
    ELSE j

\* index (0-based) of the first line from j that is not a table row
RECURSIVE RowsEnd(_, _)
RowsEnd(ls, j) ==
    IF /\ j < Len(ls)
       /\ Contains(ls[j + 1], "|")
       /\ ~startswith(lstrip(ls[j + 1]), <<"#">>)
    THEN RowsEnd(ls, j + 1)
    ELSE j

HeaderRow(header) ==
    <<"<thead>", "<tr>">>
        \o concat([k \in 1..Len(header) |->
                      <<"<th>">> \o render_inline(header[k]) \o <<"</th>">>])
        \o <<"</tr>", "</thead>">>

BodyRow(r) ==
    <<"<tr>">>
        \o concat([k \in 1..Len(r) |->
                      <<"<td>">> \o render_inline(r[k]) \o <<"</td>">>])
        \o <<"</tr>">>

\* heading fragment that is always of level 1
HeadingFragment_h1(level, text) ==
    <<"<h1>">> \o render_inline(text) \o <<"</h1>">>

HeadingFragment(level, text) ==
    <<"<h" \o ToString(level) \o ">">> \o render_inline(text)
        \o <<"</h" \o ToString(level) \o ">">>

ItemFragment(text) == <<"<li>">> \o render_inline(text) \o <<"</li>">>

----------------------------------------------------------------------------
(* The input documents                                                     *)

Vocabulary ==
    { <<>>,
      <<Backtick, Backtick, Backtick>>,
      <<Backtick, Backtick, Backtick, "p">>,
      <<Backtick, Backtick, Backtick, " ">>,
      <<"a", "|", "b">>,
      <<"-", "-", "-", "|", "-", "-", "-">>,
      <<"#", " ", "h">>,
      <<"#", " ", "|">>,
      <<" ", "#", "|">>,
      <<">", " ", "q">>,
      <<"-", " ", "x">>,
      <<"1", ".", " ", "y">>,
      <<"t">>,
      <<"-", "-", "-">>,
      <<"<", "&", ">">>,
      <<"*", "*", "b", "*", "*">>,
      <<"[", "<", "]", "(", "&", ")">> }

\* a header line and its separator row
TableHead == << <<"a", "|", "b">>, <<"-", "-", "-", "|", "-", "-", "-">> >>

----------------------------------------------------------------------------
(* The line loop of markdown_to_storage                                    *)

VARIABLES lines, i, in_ul, in_ol, in_para, in_quote, in_code, out, pc,
          branch, result

\* the argument of the running call of markdown_to_storage, the arguments
\* of the calls still to be made, and the values the finished calls returned
VARIABLES markdown, pending, results

\* render_inline taken one substitution at a time: its argument, the local
\* s, and the statement it is at
VARIABLES inl_text, inl_s, inl_step

\* html_to_markdown_light: its argument, the local text, and the number of
\* the substitution it is at (0: not called)
VARIABLES html, html_text, html_k

\* the select command of mysql_cli: where the query comes from, its text,
\* the statement the command is at, the texts given to the mysql client,
\* and how the command ended
VARIABLES sql_source, sql_query, sql_pc, sql_sent, sql_exit

\* the test and select commands of oracle_cli: the command, --engine, the
\* query text, the statement the command is at, what _run_java returned,
\* the client programs run so far, and the exit status
VARIABLES ora_cmd, ora_engine, ora_query, ora_pc, ora_java_rc, ora_calls,
          ora_exit

\* a request of figma_cli: the function, its auto_retry and max_retries
\* arguments, the local retries, the number of urlopen calls, the answer to
\* the last of them, the sleeps made, the statement it is at, and how the
\* call ended
VARIABLES fig_fn, fig_auto_retry, fig_max_retries, fig_retries, fig_attempts,
          fig_response, fig_sleeps, fig_pc, fig_exit

\* memory_cli: the memory file, and the last command run on it with its
\* input, what it printed and how it ended
VARIABLES mem_file, mem_cmd, mem_input, mem_out, mem_exit

\* cron_manager: jobs.json, the plist and wrapper-script files, the jobs
\* loaded in launchd, and the last call with how it ended
VARIABLES cron_data, cron_plist, cron_script, cron_loaded, cron_call,
          cron_exit

mdVars == <<lines, i, in_ul, in_ol, in_para, in_quote, in_code, out, pc,
            branch, result>>
callVars == <<markdown, pending, results>>
inlVars == <<inl_text, inl_s, inl_step>>
htmVars == <<html, html_text, html_k>>
sqlVars == <<sql_source, sql_query, sql_pc, sql_sent, sql_exit>>
oraVars == <<ora_cmd, ora_engine, ora_query, ora_pc, ora_java_rc, ora_calls,
             ora_exit>>
figVars == <<fig_fn, fig_auto_retry, fig_max_retries, fig_retries,
             fig_attempts, fig_response, fig_sleeps, fig_pc, fig_exit>>
memVars == <<mem_file, mem_cmd, mem_input, mem_out, mem_exit>>
cronVars == <<cron_data, cron_plist, cron_script, cron_loaded, cron_call,
              cron_exit>>
toolVars == <<memVars, cronVars>>

\* the state of everything but the line loop
others == <<callVars, inlVars, htmVars, sqlVars, oraVars, figVars, toolVars>>

vars == <<mdVars, others>>

\* the line loop is not running
MdIdle ==
    /\ lines = <<>> /\ i = 0
    /\ in_ul = FALSE /\ in_ol = FALSE /\ in_para = FALSE
    /\ in_quote = FALSE /\ in_code = FALSE
    /\ out = <<>> /\ pc = "idle" /\ branch = "start" /\ result = <<>>
    /\ markdown = <<>> /\ pending = <<>> /\ results = <<>>

\* no call of render_inline on its own is under way
InlIdle == inl_text = <<>> /\ inl_s = <<>> /\ inl_step = "idle"

\* html_to_markdown_light is not called
HtmIdle == html = <<>> /\ html_text = <<>> /\ html_k = 0

\* the select command of mysql_cli is not run
SqlIdle ==
    /\ sql_source = "none" /\ sql_query = <<>> /\ sql_pc = "idle"
    /\ sql_sent = <<>> /\ sql_exit = "none"

\* no command of oracle_cli is run
OraIdle ==
    /\ ora_cmd = "none" /\ ora_engine = "none" /\ ora_query = <<>>
    /\ ora_pc = "idle" /\ ora_java_rc = "none" /\ ora_calls = <<>>
    /\ ora_exit = "none"

\* no request of figma_cli is made
FigIdle ==
    /\ fig_fn = "none" /\ fig_auto_retry = FALSE /\ fig_max_retries = 0
    /\ fig_retries = 0 /\ fig_attempts = 0 /\ fig_sleeps = <<>>
    /\ fig_response = [code |-> "none", retry_after |-> "absent"]
    /\ fig_pc = "idle" /\ fig_exit = "none"

\* no command of memory_cli has run and there is no memory file
MemIdle ==
    /\ mem_file = [exists |-> FALSE, lines |-> <<>>]
    /\ mem_cmd = "none" /\ mem_input = <<>> /\ mem_out = <<>>
    /\ mem_exit = "none"

\* no function of cron_manager has run and there is no job
CronIdle ==
    /\ cron_data = [exists |-> FALSE, jobs |-> <<>>]
    /\ cron_plist = <<>> /\ cron_script = <<>> /\ cron_loaded = <<>>
    /\ cron_call = <<>> /\ cron_exit = "none"

\* every part of the program but the one named is at rest
IdleBut(part) ==
    /\ IF part = "markdown" THEN TRUE ELSE MdIdle
    /\ IF part = "inline" THEN TRUE ELSE InlIdle
    /\ IF part = "html" THEN TRUE ELSE HtmIdle
    /\ IF part = "mysql" THEN TRUE ELSE SqlIdle
    /\ IF part = "oracle" THEN TRUE ELSE OraIdle
    /\ IF part = "figma" THEN TRUE ELSE FigIdle
    /\ IF part = "memory" THEN TRUE ELSE MemIdle
    /\ IF part = "cron" THEN TRUE ELSE CronIdle

\* lines[i] and its right-stripped form (i counts from 0 as in the code)
raw == lines[i + 1]
line == rstrip(raw)

Init ==
    /\ \E n \in 0..MaxLines : \E d \in [1..n -> Vocabulary] :
           \/ n >= 1 /\ lines = d
           \/ lines = TableHead \o d
    /\ i = 0
    /\ in_ul = FALSE
    /\ in_ol = FALSE
    /\ in_para = FALSE
    /\ in_quote = FALSE
    /\ in_code = FALSE
    /\ out = <<>>
    /\ pc = "loop"
    /\ branch = "start"
    /\ result = <<>>
    /\ markdown = join(lines, <<"\n">>)
    /\ pending = <<>>
    /\ results = <<>>
    /\ IdleBut("markdown")

InLoop == pc = "loop" /\ i < Len(lines)

\* fence test that does not look at in_code
IsFenceOpen_any == IsFence(line)

IsFenceOpen == ~in_code /\ IsFence(line)
IsBlank == strip(line) = <<>>
\* table test that does not look at the next line's shape
IsTable_no_separator == Contains(line, "|") /\ i + 1 < Len(lines)

IsTable ==
    /\ Contains(line, "|")
    /\ i + 1 < Len(lines)
    /\ is_separator_row(lines[i + 2])
IsQuote == startswith(line, <<">">>)

\* the conditions under which control reaches each branch of the loop body
AtCode == InLoop /\ ~IsFenceOpen /\ in_code
AtBlank == InLoop /\ ~IsFenceOpen /\ ~in_code /\ IsBlank
AtTable == InLoop /\ ~IsFenceOpen /\ ~in_code /\ ~IsBlank /\ IsTable
AtRule == InLoop /\ ~IsFenceOpen /\ ~in_code /\ ~IsBlank /\ ~IsTable /\ IsRule(line)
AtHeading ==
    /\ InLoop /\ ~IsFenceOpen /\ ~in_code /\ ~IsBlank /\ ~IsTable
    /\ ~IsRule(line) /\ IsHeading(line)
AtQuote ==
    /\ InLoop /\ ~IsFenceOpen /\ ~in_code /\ ~IsBlank /\ ~IsTable
    /\ ~IsRule(line) /\ ~IsHeading(line) /\ IsQuote
AtLists ==
    /\ InLoop /\ ~IsFenceOpen /\ ~in_code /\ ~IsBlank /\ ~IsTable
    /\ ~IsRule(line) /\ ~IsHeading(line) /\ ~IsQuote

FenceOpen ==
    /\ InLoop /\ IsFenceOpen
    /\ out' = Append(CloseAll(out, in_para, in_ul, in_ol, in_quote),
                     <<"<pre>", "<code>">>)
    /\ in_para' = FALSE /\ in_ul' = FALSE /\ in_ol' = FALSE /\ in_quote' = FALSE
    /\ in_code' = TRUE
    /\ i' = i + 1
    /\ branch' = "fence"
    /\ UNCHANGED <<lines, pc, result>>
    /\ UNCHANGED others

\* fence content step that takes every line starting with the fence
\* marker as the closing fence
CodeLine_any_fence ==
    /\ AtCode
    /\ IF IsFence(line)
       THEN /\ out' = Append(out, <<"</code>", "</pre>">>)
            /\ in_code' = FALSE
            /\ branch' = "fence_close"
       ELSE /\ out' = Append(out, escape_html(raw))
            /\ in_code' = in_code
            /\ branch' = "code"
    /\ i' = i + 1
    /\ UNCHANGED <<lines, in_ul, in_ol, in_para, in_quote, pc, result>>
    /\ UNCHANGED others

CodeLine ==
    /\ AtCode
    /\ IF line = <<Backtick, Backtick, Backtick>>
       THEN /\ out' = Append(out, <<"</code>", "</pre>">>)
            /\ in_code' = FALSE
            /\ branch' = "fence_close"
       ELSE /\ out' = Append(out, escape_html(raw))
            /\ in_code' = in_code
            /\ branch' = "code"
    /\ i' = i + 1
    /\ UNCHANGED <<lines, in_ul, in_ol, in_para, in_quote, pc, result>>
    /\ UNCHANGED others

\* blank line that closes nothing
BlankLine_skip ==
    /\ AtBlank
    /\ i' = i + 1
    /\ branch' = "blank"
    /\ UNCHANGED <<lines, in_ul, in_ol, in_para, in_quote, in_code, out, pc,
                   result>>
    /\ UNCHANGED others

BlankLine ==
    /\ AtBlank
    /\ out' = CloseAll(out, in_para, in_ul, in_ol, in_quote)
    /\ in_para' = FALSE /\ in_ul' = FALSE /\ in_ol' = FALSE /\ in_quote' = FALSE
    /\ i' = i + 1
    /\ branch' = "blank"
    /\ UNCHANGED <<lines, in_code, pc, result>>
    /\ UNCHANGED others

Table ==
    /\ AtTable
    /\ LET header == parse_cells(line)
           e == RowsEnd(lines, i + 2)
           rows == [k \in 1..(e - (i + 2)) |-> parse_cells(lines[i + 2 + k])]
       IN  /\ out' = CloseAll(out, in_para, in_ul, in_ol, in_quote)
                        \o <<<<"<table>">>, HeaderRow(header), <<"<tbody>">>>>
                        \o [k \in 1..Len(rows) |-> BodyRow(rows[k])]
                        \o <<<<"</tbody>">>, <<"</table>">>>>
           /\ i' = e
    /\ in_para' = FALSE /\ in_ul' = FALSE /\ in_ol' = FALSE /\ in_quote' = FALSE
    /\ branch' = "table"
    /\ UNCHANGED <<lines, in_code, pc, result>>
    /\ UNCHANGED others

Rule ==
    /\ AtRule
    /\ out' = Append(CloseAll(out, in_para, in_ul, in_ol, in_quote), <<"<hr/>">>)
    /\ in_para' = FALSE /\ in_ul' = FALSE /\ in_ol' = FALSE /\ in_quote' = FALSE
    /\ i' = i + 1
    /\ branch' = "rule"
    /\ UNCHANGED <<lines, in_code, pc, result>>
    /\ UNCHANGED others

Heading ==
    /\ AtHeading
    /\ out' = Append(CloseAll(out, in_para, in_ul, in_ol, in_quote),
                     HeadingFragment(HeadingLevel(line), HeadingText(line)))
    /\ in_para' = FALSE /\ in_ul' = FALSE /\ in_ol' = FALSE /\ in_quote' = FALSE
    /\ i' = i + 1
    /\ branch' = "heading"
    /\ UNCHANGED <<lines, in_code, pc, result>>
    /\ UNCHANGED others

\* blockquote branch that opens a paragraph for every line
Quote_para_per_line ==
    /\ AtQuote
    /\ LET o1 == IF in_quote THEN out
                 ELSE Append(close_lists(close_para(out, in_para), in_ul, in_ol),
                             <<"<blockquote>">>)
       IN  out' = Append(Append(o1, <<"<p>">>),
                         render_inline(lstrip(Tail(line))) \o <<" ">>)
    /\ in_ul' = (in_quote /\ in_ul)
    /\ in_ol' = (in_quote /\ in_ol)
    /\ in_quote' = TRUE
    /\ in_para' = TRUE
    /\ i' = i + 1
    /\ branch' = "quote"
    /\ UNCHANGED <<lines, in_code, pc, result>>
    /\ UNCHANGED others

Quote ==
    /\ AtQuote
    /\ LET o1 == IF in_quote THEN out
                 ELSE Append(close_lists(close_para(out, in_para), in_ul, in_ol),
                             <<"<blockquote>">>)
           para1 == in_quote /\ in_para
           o2 == IF para1 THEN o1 ELSE Append(o1, <<"<p>">>)
       IN  out' = Append(o2, render_inline(lstrip(Tail(line))) \o <<" ">>)
    /\ in_ul' = (in_quote /\ in_ul)
    /\ in_ol' = (in_quote /\ in_ol)
    /\ in_quote' = TRUE
    /\ in_para' = TRUE
    /\ i' = i + 1
    /\ branch' = "quote"
    /\ UNCHANGED <<lines, in_code, pc, result>>
    /\ UNCHANGED others

\* unordered-item branch that leaves an open ordered list open
UlItem_keeps_ol ==
    /\ AtLists /\ IsUl(line)
    /\ LET o0 == close_quote(out, in_quote)
           o1 == IF in_ul THEN o0
                 ELSE Append(close_para(o0, in_para), <<"<ul>">>)
       IN  out' = Append(o1, ItemFragment(ItemText(line, 1)))
    /\ in_quote' = FALSE
    /\ in_para' = (in_ul /\ in_para)
    /\ in_ol' = in_ol
    /\ in_ul' = TRUE
    /\ i' = i + 1
    /\ branch' = "ul"
    /\ UNCHANGED <<lines, in_code, pc, result>>
    /\ UNCHANGED others

UlItem ==
    /\ AtLists /\ IsUl(line)
    /\ LET o0 == close_quote(out, in_quote)
           o1 == IF in_ul THEN o0
                 ELSE Append(IF in_ol
                             THEN Append(close_para(o0, in_para), <<"</ol>">>)
                             ELSE close_para(o0, in_para),
                             <<"<ul>">>)
       IN  out' = Append(o1, ItemFragment(ItemText(line, 1)))
    /\ in_quote' = FALSE
    /\ in_para' = (in_ul /\ in_para)
    /\ in_ol' = (in_ul /\ in_ol)
    /\ in_ul' = TRUE
    /\ i' = i + 1
    /\ branch' = "ul"
    /\ UNCHANGED <<lines, in_code, pc, result>>
    /\ UNCHANGED others

OlItem ==
    /\ AtLists /\ ~IsUl(line) /\ IsOl(line)
    /\ LET o0 == close_quote(out, in_quote)
           o1 == IF in_ol THEN o0
                 ELSE Append(IF in_ul
                             THEN Append(close_para(o0, in_para), <<"</ul>">>)
                             ELSE close_para(o0, in_para),
                             <<"<ol>">>)
       IN  out' = Append(o1, ItemFragment(ItemText(line, OlMarker(line))))
    /\ in_quote' = FALSE
    /\ in_para' = (in_ol /\ in_para)
    /\ in_ul' = (in_ol /\ in_ul)
    /\ in_ol' = TRUE
    /\ i' = i + 1
    /\ branch' = "ol"
    /\ UNCHANGED <<lines, in_code, pc, result>>
    /\ UNCHANGED others

\* paragraph branch that appends the escaped line only
ParaLine_escape_only ==
    /\ AtLists /\ ~IsUl(line) /\ ~IsOl(line)
    /\ LET o0 == close_quote(out, in_quote)
           o1 == IF in_para THEN o0 ELSE Append(o0, <<"<p>">>)
       IN  out' = Append(o1, escape_html(line) \o <<" ">>)
    /\ in_quote' = FALSE
    /\ in_para' = TRUE
    /\ i' = i + 1
    /\ branch' = "para"
    /\ UNCHANGED <<lines, in_ul, in_ol, in_code, pc, result>>
    /\ UNCHANGED others

ParaLine ==
    /\ AtLists /\ ~IsUl(line) /\ ~IsOl(line)
    /\ LET o0 == close_quote(out, in_quote)
           o1 == IF in_para THEN o0 ELSE Append(o0, <<"<p>">>)
       IN  out' = Append(o1, render_inline(line) \o <<" ">>)
    /\ in_quote' = FALSE
    /\ in_para' = TRUE
    /\ i' = i + 1
    /\ branch' = "para"
    /\ UNCHANGED <<lines, in_ul, in_ol, in_code, pc, result>>
    /\ UNCHANGED others

\* return that leaves the last line unread
Finish_early ==
    /\ pc = "loop" /\ i + 1 >= Len(lines)
    /\ out' = CloseAll(out, in_para, in_ul, in_ol, in_quote)
    /\ in_para' = FALSE /\ in_ul' = FALSE /\ in_ol' = FALSE /\ in_quote' = FALSE
    /\ result' = strip(join(out', <<"\n">>))
    /\ pc' = "done"
    /\ branch' = "return"
    /\ UNCHANGED <<lines, i, in_code>>
    /\ UNCHANGED others

\* the statements after the loop
Finish ==
    /\ pc = "loop" /\ i >= Len(lines)
    /\ out' = CloseAll(out, in_para, in_ul, in_ol, in_quote)
    /\ in_para' = FALSE /\ in_ul' = FALSE /\ in_ol' = FALSE /\ in_quote' = FALSE
    /\ result' = strip(join(out', <<"\n">>))
    /\ pc' = "done"
    /\ branch' = "return"
    /\ UNCHANGED <<lines, i, in_code>>
    /\ UNCHANGED others

Next ==
    \/ FenceOpen
    \/ CodeLine
    \/ BlankLine
    \/ Table
    \/ Rule
    \/ Heading
    \/ Quote
    \/ UlItem
    \/ OlItem
    \/ ParaLine
    \/ Finish

Spec == Init /\ [][Next]_vars

----------------------------------------------------------------------------
(* Properties                                                              *)

Count(s, tok) == Cardinality({k \in 1..Len(s) : s[k] = tok})

RangeOf(s) == {s[k] : k \in 1..Len(s)}

EndsWith(s, t) ==
    /\ Len(s) >= Len(t)
    /\ SubSeq(s, Len(s) - Len(t) + 1, Len(s)) = t

\* the fragments a step appends to out
Added == SubSeq(out', Len(out) + 1, Len(out'))

BlockTagPairs ==
    { <<"<p>", "</p>">>, <<"<ul>", "</ul>">>, <<"<ol>", "</ol>">>,
      <<"<blockquote>", "</blockquote>">>, <<"<pre>", "</pre>">>,
      <<"<table>", "</table>">> }

\* C1: the returned document holds as many opening as closing tags of every
\* block kind (<p>, <ul>, <ol>, <blockquote>, <pre><code>, <table>),
\* whatever the input, also when its last block is left unterminated.
C1_StructuralBalance ==
    pc = "done" =>
        \A pr \in BlockTagPairs : Count(result, pr[1]) = Count(result, pr[2])

OpenFlags ==
    (IF in_ul THEN 1 ELSE 0) + (IF in_ol THEN 1 ELSE 0)
        + (IF in_para THEN 1 ELSE 0) + (IF in_quote THEN 1 ELSE 0)
        + (IF in_code THEN 1 ELSE 0)

\* C2: in_ul, in_ol, in_para, in_quote and in_code are mutually exclusive:
\* at most one of them is true in every reachable state.
C2_MutuallyExclusive == OpenFlags <= 1

\* C3: a plain paragraph line processed right after a list item appends the
\* closing tag of that list and, after it, the paragraph's <p>.
C3_ListClosedBeforePara ==
    [][(ParaLine /\ branch \in {"ul", "ol"}) =>
          \E a, b \in 1..Len(Added) :
              /\ a < b
              /\ Added[a] = (IF branch = "ul" THEN <<"</ul>">> ELSE <<"</ol>">>)
              /\ Added[b] = <<"<p>">>]_vars

\* C4: the statements after the loop close every paragraph, list and
\* blockquote still open: the closing tag of each is appended (and of no
\* other), the returned text ends with them, and the four flags are false.
C4_OpenContextsClosedAtEnd ==
    [][Finish =>
          /\ ~in_para' /\ ~in_ul' /\ ~in_ol' /\ ~in_quote'
          /\ (in_para <=> <<"</p>">> \in RangeOf(Added))
          /\ (in_ul <=> <<"</ul>">> \in RangeOf(Added))
          /\ (in_ol <=> <<"</ol>">> \in RangeOf(Added))
          /\ (in_quote <=> <<"</blockquote>">> \in RangeOf(Added))
          /\ Len(Added) = OpenFlags - (IF in_code THEN 1 ELSE 0)
          /\ EndsWith(result', join(Added, <<"\n">>))]_vars

\* C4 witness: a document whose last line is a blockquote line has returned,
\* and the paragraph and the blockquote it left open are closed at the end
C4_Witness ==
    /\ pc = "done"
    /\ lines[Len(lines)] = <<">", " ", "q">>
    /\ EndsWith(result, <<"q", " ", "\n", "</p>", "\n", "</blockquote>">>)

Fence3 == <<Backtick, Backtick, Backtick>>

\* before line k (0-based) is read, a fence is open whose closing line is a
\* line that is exactly three backticks
RECURSIVE OpenBeforeExact(_, _)
OpenBeforeExact(ls, k) ==
    IF k = 0 THEN FALSE
    ELSE IF OpenBeforeExact(ls, k - 1) THEN ls[k] # Fence3
    ELSE startswith(ls[k], Fence3)

\* the same, a closing line being three backticks and trailing whitespace
RECURSIVE OpenBeforeStripped(_, _)
OpenBeforeStripped(ls, k) ==
    IF k = 0 THEN FALSE
    ELSE IF OpenBeforeStripped(ls, k - 1) THEN rstrip(ls[k]) # Fence3
    ELSE startswith(ls[k], Fence3)

\* the step emits the current line as escaped raw text and nothing else
EmittedRaw ==
    /\ Added = <<escape_html(raw)>>
    /\ UNCHANGED <<in_ul, in_ol, in_para, in_quote, in_code>>

\* C5 as stated: every line between a fence-opening line and the next line
\* that is exactly three backticks is emitted as its escaped raw text only.
C5_FenceContentRaw_Exact ==
    [][(/\ InLoop /\ OpenBeforeExact(lines, i) /\ raw # Fence3
        /\ \E c \in (i + 2)..Len(lines) : lines[c] = Fence3) => EmittedRaw]_vars

\* C5 amended: every line between a fence-opening line and the next line
\* that is three backticks once its trailing whitespace is removed is
\* emitted as its escaped raw text only, with no block or inline rendering.
C5_FenceContentRaw ==
    [][(/\ InLoop /\ OpenBeforeStripped(lines, i) /\ rstrip(raw) # Fence3
        /\ \E c \in (i + 2)..Len(lines) : rstrip(lines[c]) = Fence3)
          => EmittedRaw]_vars

\* C5 witness: a heading line inside a fence that is closed later was
\* emitted as plain characters
C5_Witness ==
    /\ branch = "code"
    /\ lines[i] = <<"#", " ", "h">>
    /\ i < Len(lines) /\ rstrip(lines[i + 1]) = Fence3
    /\ out[Len(out)] = <<"#", " ", "h">>

TableAdded == <<"<table>">> \in RangeOf(Added)

SeparatorNext == i + 1 < Len(lines) /\ is_separator_row(lines[i + 2])

\* C6: a step outside a code fence appends <table> only for a line that holds
\* "|" and is directly followed by a separator row; a line with "|" that
\* reaches the table test without such a next line is consumed as one
\* ordinary line, appends no <table> and keeps its "|" characters as text.
C6_TableNeedsSeparator ==
    [][InLoop =>
          /\ TableAdded => (~in_code /\ Contains(line, "|") /\ SeparatorNext)
          /\ (/\ ~IsFence(line) /\ ~in_code /\ line # <<>>
              /\ Contains(line, "|") /\ ~SeparatorNext)
                => /\ ~TableAdded
                   /\ i' = i + 1 /\ pc' = "loop"
                   /\ Count(concat(Added), "|") = Count(line, "|")]_vars

\* C6 witness: a document with one real table and then a line with "|" that
\* no separator follows has been rendered with one table and one text "|"
C6_Witness ==
    /\ pc = "done"
    /\ lines = TableHead \o << <<"t">>, <<"a", "|", "b">> >>
    /\ Count(result, "<table>") = 1
    /\ Count(result, "|") = 1

RowLiteral(l) == Contains(l, "|") /\ ~startswith(l, <<"#">>)

RowStripped(l) == Contains(l, "|") /\ ~startswith(lstrip(l), <<"#">>)

\* the table step renders one header row and the lines i+2 .. i'-1 as body
\* rows, in order, and leaves line i' to the next iteration
TableRendersRun ==
    /\ i' \in (i + 2)..Len(lines)
    /\ pc' = "loop"
    /\ LET n == i' - (i + 2)
           t == SubSeq(Added, Len(Added) - (n + 4), Len(Added))
       IN  /\ Len(Added) >= n + 5
           /\ t[1] = <<"<table>">>
           /\ t[2] = HeaderRow(parse_cells(line))
           /\ t[3] = <<"<tbody>">>
           /\ \A k \in 1..n : t[3 + k] = BodyRow(parse_cells(lines[i + 2 + k]))
           /\ t[n + 4] = <<"</tbody>">>
           /\ t[n + 5] = <<"</table>">>
           /\ Count(concat(Added), "<thead>") = 1
           /\ Count(concat(Added), "<tr>") = n + 1

\* C7 as stated: the body rows are the longest run of lines after the
\* separator that hold "|" and do not start with "#".
C7_TableRows_Literal ==
    [][Table =>
          /\ TableRendersRun
          /\ \A k \in (i + 2)..(i' - 1) : RowLiteral(lines[k + 1])
          /\ i' < Len(lines) => ~RowLiteral(lines[i' + 1])]_vars

\* C7 amended: the body rows are the longest run of lines after the
\* separator that hold "|" and do not start with "#" once leading whitespace
\* is removed: one <tr> per line in source order after exactly one header
\* row; the first other line, if any, is left for the next iteration.
C7_TableRows ==
    [][Table =>
          /\ TableRendersRun
          /\ \A k \in (i + 2)..(i' - 1) : RowStripped(lines[k + 1])
          /\ i' < Len(lines) => ~RowStripped(lines[i' + 1])]_vars

\* C7 witness: header, separator, one row and a plain line: the table step
\* has consumed three lines and rendered one header row and one body row
C7_Witness ==
    /\ branch = "table"
    /\ lines = TableHead \o << <<"a", "|", "b">>, <<"t">> >>
    /\ i = 3
    /\ Count(concat(out), "<tr>") = 2

ListTags == { <<"<ul>">>, <<"</ul>">>, <<"<ol>">>, <<"</ol>">> }

RECURSIVE LastListTag(_)
LastListTag(o) ==
    IF o = <<>> THEN <<>>
    ELSE IF o[Len(o)] \in ListTags THEN o[Len(o)]
    ELSE LastListTag(SubSeq(o, 1, Len(o) - 1))

\* the step appends close, then open, then one <li> fragment as its last
ClosesThenOpens(close, open) ==
    /\ Len(Added) >= 3
    /\ Added[Len(Added) - 2] = <<close>>
    /\ Added[Len(Added) - 1] = <<open>>
    /\ Head(Added[Len(Added)]) = "<li>"

\* C8: an ordered item right after an unordered item (or the reverse) closes
\* the open list and opens one of the other type before its <li>; in_ul and
\* in_ol are never both true, and the list tag last emitted before any <li>
\* is the opening tag of the item's own type.
C8_ListTypeSwitch ==
    /\ [](~(in_ul /\ in_ol))
    /\ []((branch = "ul" => in_ul /\ LastListTag(out) = <<"<ul>">>)
          /\ (branch = "ol" => in_ol /\ LastListTag(out) = <<"<ol>">>))
    /\ [][/\ (OlItem /\ branch = "ul") => ClosesThenOpens("</ul>", "<ol>")
          /\ (UlItem /\ branch = "ol") => ClosesThenOpens("</ol>", "<ul>")]_vars

\* C8 witness: "- x" then "1. y": the unordered list was closed and an
\* ordered one opened before the second item
C8_Witness ==
    /\ branch = "ol"
    /\ i = 2
    /\ out = << <<"<ul>">>, <<"<li>", "x", "</li>">>, <<"</ul>">>,
                <<"<ol>">>, <<"<li>", "y", "</li>">> >>

QuoteText(l) == render_inline(lstrip(Tail(rstrip(l)))) \o <<" ">>

\* C9: the lines of a blockquote run are rendered inside one <blockquote>
\* and one <p>: the first line of a run appends <blockquote>, <p> and its
\* text followed by a space, every further line appends only its text
\* followed by a space, so after k lines the output ends with the wrapper,
\* the paragraph and the k texts in source order.
C9_QuoteRun ==
    /\ [][/\ (Quote /\ branch # "quote") =>
                /\ Len(Added) >= 3
                /\ SubSeq(Added, Len(Added) - 2, Len(Added))
                     = << <<"<blockquote>">>, <<"<p>">>, QuoteText(raw) >>
                /\ Count(concat(Added), "<blockquote>") = 1
                /\ Count(concat(Added), "<p>") = 1
          /\ (Quote /\ branch = "quote") => Added = <<QuoteText(raw)>>]_vars
    /\ [](branch = "quote" =>
            \E k \in 1..i :
                /\ Len(out) >= k + 2
                /\ \A j \in 1..k : startswith(lines[i - k + j], <<">">>)
                /\ SubSeq(out, Len(out) - k - 1, Len(out))
                     = << <<"<blockquote>">>, <<"<p>">> >>
                         \o [j \in 1..k |-> QuoteText(lines[i - k + j])])

\* C9 witness: three blockquote lines in a row are one wrapper, one
\* paragraph and three texts
C9_Witness ==
    /\ branch = "quote"
    /\ i = 3
    /\ out = << <<"<blockquote>">>, <<"<p>">>, <<"q", " ">>, <<"q", " ">>,
                <<"q", " ">> >>

Occurs(s, t) == \E p \in 1..Len(s) : StartsAt(s, p, t)

\* C10: no "<" and no ">" character of the source text is ever in the
\* output: in every fragment, and in the returned text, the only "<" and
\* ">" are those of the tags the renderer emits.
C10_NoRawAngleBrackets ==
    /\ \A k \in 1..Len(out) : ~Contains(out[k], "<") /\ ~Contains(out[k], ">")
    /\ ~Contains(result, "<") /\ ~Contains(result, ">")

\* C10 witness: a document with a line "<&>" has been rendered and the
\* returned text holds the three entities in its place
C10_Witness ==
    /\ pc = "done"
    /\ \E k \in 1..Len(lines) : lines[k] = <<"<", "&", ">">>
    /\ Occurs(result, LT \o AMP \o GT)

----------------------------------------------------------------------------
(* render_inline, one substitution at a time                               *)

\* number of pieces an argument of render_inline is made of
MaxChunks == 3

\* the pieces: a bold span of each kind, an italic span of each kind, the
\* two halves of a link, and single characters
InlineChunks ==
    { <<"*", "*", "x", "*", "*">>,
      <<"_", "_", "x", "_", "_">>,
      <<"*", "y", "*">>,
      <<"_", "y", "_">>,
      <<"[", "t", "]", "(">>,
      <<")">>,
      <<" ">>,
      <<"a">>,
      <<"*">>,
      <<"_">>,
      <<Backtick>>,
      <<"<">> }

InitInline ==
    /\ \E n \in 0..MaxChunks : \E c \in [1..n -> InlineChunks] :
           inl_text = concat(c)
    /\ inl_s = inl_text
    /\ inl_step = "escape"
    /\ IdleBut("inline")

InlEscape ==
    /\ inl_step = "escape"
    /\ inl_s' = escape_html(inl_text)
    /\ inl_step' = "link"
    /\ UNCHANGED <<inl_text, mdVars, callVars, htmVars, sqlVars, oraVars, figVars, toolVars>>

InlLink ==
    /\ inl_step = "link"
    /\ inl_s' = sub_link(inl_s, 1)
    /\ inl_step' = "code"
    /\ UNCHANGED <<inl_text, mdVars, callVars, htmVars, sqlVars, oraVars, figVars, toolVars>>

InlCode ==
    /\ inl_step = "code"
    /\ inl_s' = sub_from(inl_s, 1, PatCode)
    /\ inl_step' = "bold_star"
    /\ UNCHANGED <<inl_text, mdVars, callVars, htmVars, sqlVars, oraVars, figVars, toolVars>>

InlBoldStar ==
    /\ inl_step = "bold_star"
    /\ inl_s' = sub_from(inl_s, 1, PatBoldStar)
    /\ inl_step' = "bold_under"
    /\ UNCHANGED <<inl_text, mdVars, callVars, htmVars, sqlVars, oraVars, figVars, toolVars>>

InlBoldUnder ==
    /\ inl_step = "bold_under"
    /\ inl_s' = sub_from(inl_s, 1, PatBoldUnder)
    /\ inl_step' = "em_star"
    /\ UNCHANGED <<inl_text, mdVars, callVars, htmVars, sqlVars, oraVars, figVars, toolVars>>

InlEmStar ==
    /\ inl_step = "em_star"
    /\ inl_s' = sub_from(inl_s, 1, PatEmStar)
    /\ inl_step' = "em_under"
    /\ UNCHANGED <<inl_text, mdVars, callVars, htmVars, sqlVars, oraVars, figVars, toolVars>>

InlEmUnder ==
    /\ inl_step = "em_under"
    /\ inl_s' = sub_from(inl_s, 1, PatEmUnder)
    /\ inl_step' = "return"
    /\ UNCHANGED <<inl_text, mdVars, callVars, htmVars, sqlVars, oraVars, figVars, toolVars>>

NextInline ==
    \/ InlEscape
    \/ InlLink
    \/ InlCode
    \/ InlBoldStar
    \/ InlBoldUnder
    \/ InlEmStar
    \/ InlEmUnder

SpecInline == InitInline /\ [][NextInline]_vars

\* the value render_inline returns is the one the line loop uses
InlineReturnsRenderInline ==
    inl_step = "return" => inl_s = render_inline(inl_text)

\* the href values of the anchors of s, in order, from position p
RECURSIVE Hrefs(_, _)
Hrefs(s, p) ==
    IF p > Len(s) THEN <<>>
    ELSE IF s[p] = "<a href=\""
    THEN LET n == RunNot(s, p + 1, "\">")
         IN  <<SubSeq(s, p + 1, p + n)>> \o Hrefs(s, p + n + 1)
    ELSE Hrefs(s, p + 1)

AfterLink == {"code", "bold_star", "bold_under", "em_star", "em_under"}

\* C11: once the link pass has made the anchors, no later pass of
\* render_inline (code, bold, italic) changes the href value of any of them.
C11_HrefUnchanged ==
    [][(inl_step \in AfterLink) => (Hrefs(inl_s, 1) = Hrefs(inl_s', 1))
      ]_vars

BoldSpans == { <<"*", "*", "x", "*", "*">>, <<"_", "_", "x", "_", "_">> }
ItalicSpans == { <<"*", "y", "*">>, <<"_", "y", "_">> }
Separators == { <<>>, <<" ">>, <<"a">> }
StrongX == <<"<strong>", "x", "</strong>">>
EmY == <<"<em>", "y", "</em>">>

\* C12: a text made of one bold span (**x** or __x__) and one italic span
\* (*y* or _y_), in either order, with nothing, a blank or a letter between
\* them, is returned as one <strong>x</strong> and one <em>y</em> in the
\* order of the source, with the separator between them and no other tag.
C12_BoldAndItalic ==
    inl_step = "return" =>
        \A b \in BoldSpans, e \in ItalicSpans, sep \in Separators :
            /\ inl_text = b \o sep \o e => inl_s = StrongX \o sep \o EmY
            /\ inl_text = e \o sep \o b => inl_s = EmY \o sep \o StrongX

\* C12 witness: "*y* **x**" has been rendered as "<em>y</em> <strong>x</strong>"
C12_Witness ==
    /\ inl_step = "return"
    /\ inl_text = <<"*", "y", "*", " ", "*", "*", "x", "*", "*">>
    /\ inl_s = EmY \o <<" ">> \o StrongX

----------------------------------------------------------------------------
(* markdown_to_storage called on whole input strings                       *)

\* number of lines of an input string (the example document has its own six)
MaxDocLines == 2

\* no replacement of "\r\n"
replace_crlf_none(s) == s

\* markdown.replace("\r\n", "\n")
RECURSIVE replace_crlf(_)
replace_crlf(s) ==
    IF s = <<>> THEN <<>>
    ELSE IF startswith(s, <<"\r", "\n">>)
    THEN <<"\n">> \o replace_crlf(SubSeq(s, 3, Len(s)))
    ELSE <<Head(s)>> \o replace_crlf(Tail(s))

\* markdown.replace("\r\n", "\n").replace("\r", "\n").split("\n")
split_lines(md) == split(replace(replace_crlf(md), "\r", <<"\n">>), "\n")

LF == <<"\n">>
CRLF == <<"\r", "\n">>
CR == <<"\r">>
Terminators == {LF, CRLF, CR}

\* the lines d, each but the last followed by its terminator t[k]
RECURSIVE Terminated(_, _)
Terminated(d, t) ==
    IF Len(d) = 1 THEN d[1]
    ELSE d[1] \o t[1] \o Terminated(Tail(d), Tail(t))

\* every CR terminator is a lone CR: the next character is not a LF
LoneCRs(d, t) ==
    \A k \in 1..Len(t) :
        t[k] = CR /\ d[k + 1] = <<>> /\ k < Len(t) => t[k + 1] # LF

InputLines ==
    { <<>>,
      <<"t">>,
      <<"a", "|", "b">>,
      <<"-", "-", "-", "|", "-", "-", "-">>,
      <<Backtick, Backtick, Backtick>>,
      <<">", " ", "q">>,
      <<"-", " ", "x">>,
      <<"1", ".", " ", "y">>,
      <<"-", "-", "-">>,
      <<"#", " ", "H", "e", "a", "d", "i", "n", "g">>,
      <<"#", "#", " ", "*", "h", "*">>,
      <<"#", "#", "#", "\t", "h">>,
      <<"#", "#", "#", "#", " ", " ", "h">>,
      <<"#", "#", "#", "#", "#", " ", "h">>,
      <<"#", "#", "#", "#", "#", "#", " ", "h">>,
      <<"#", "#", "#", "#", "#", "#", "#", " ", "h">>,
      <<"#", "h">> }

\* the lines "# Title", "", "- one", "- two", "", "**bold**"
Example ==
    << <<"#", " ", "T", "i", "t", "l", "e">>,
       <<>>,
       <<"-", " ", "o", "n", "e">>,
       <<"-", " ", "t", "w", "o">>,
       <<>>,
       <<"*", "*", "b", "o", "l", "d", "*", "*">> >>

\* The function is called on the lines d with LF terminators and then on
\* the same lines with the terminators t.
InputCalls(d, t) ==
    /\ LoneCRs(d, t)
    /\ markdown = Terminated(d, [k \in 1..(Len(d) - 1) |-> LF])
    /\ pending = <<Terminated(d, t)>>

InitInput ==
    /\ \/ \E n \in 1..MaxDocLines : \E d \in [1..n -> InputLines] :
             \E t \in [1..(n - 1) -> Terminators] : InputCalls(d, t)
       \/ \E t \in [1..(Len(Example) - 1) -> Terminators] :
             InputCalls(Example, t)
    /\ results = <<>>
    /\ lines = <<>>
    /\ i = 0
    /\ in_ul = FALSE
    /\ in_ol = FALSE
    /\ in_para = FALSE
    /\ in_quote = FALSE
    /\ in_code = FALSE
    /\ out = <<>>
    /\ pc = "start"
    /\ branch = "start"
    /\ result = <<>>
    /\ IdleBut("markdown")

\* the statements before the loop
Start ==
    /\ pc = "start"
    /\ lines' = split_lines(markdown)
    /\ out' = <<>>
    /\ i' = 0
    /\ in_ul' = FALSE /\ in_ol' = FALSE /\ in_para' = FALSE
    /\ in_quote' = FALSE /\ in_code' = FALSE
    /\ pc' = "loop"
    /\ branch' = "start"
    /\ UNCHANGED <<result, callVars, inlVars, htmVars, sqlVars, oraVars, figVars, toolVars>>

\* the caller keeps the returned value and calls again on the next input
NextCall ==
    /\ pc = "done"
    /\ pending # <<>>
    /\ results' = Append(results, result)
    /\ markdown' = Head(pending)
    /\ pending' = Tail(pending)
    /\ pc' = "start"
    /\ branch' = "start"
    /\ UNCHANGED <<lines, i, in_ul, in_ol, in_para, in_quote, in_code, out,
                   result, inlVars, htmVars, sqlVars, oraVars, figVars, toolVars>>

NextInput ==
    \/ Start
    \/ Next
    \/ NextCall

SpecInput == InitInput /\ [][NextInput]_vars

----------------------------------------------------------------------------
(* Properties of whole calls                                               *)

HTagOpen == <<"<h1>", "<h2>", "<h3>", "<h4>", "<h5>", "<h6>">>
HTagClose == <<"</h1>", "</h2>", "</h3>", "</h4>", "</h5>", "</h6>">>

\* the number of "#" characters l starts with
Hashes(l) == RunIn(l, 1, {"#"})

\* l is 1 to 6 "#" characters, whitespace and some text
IsHashLine(l) ==
    /\ Hashes(l) \in 1..6
    /\ Hashes(l) < Len(l)
    /\ l[Hashes(l) + 1] \in WS
    /\ strip(SubSeq(l, Hashes(l) + 1, Len(l))) # <<>>

HeadingLine == <<"#", " ", "H", "e", "a", "d", "i", "n", "g">>

\* C13: outside a code fence and a table, a line of n "#" (1 <= n <= 6),
\* whitespace and text is rendered as the one fragment <hn> text </hn>, the
\* text inline-rendered and n the number of "#"; the document that is only
\* "# Heading" is returned as <h1>Heading</h1>.
C13_Headings ==
    [][/\ (InLoop /\ ~in_code /\ ~IsTable /\ IsHashLine(raw))
            => /\ i' = i + 1
               /\ out'[Len(out')] =
                      <<HTagOpen[Hashes(raw)]>>
                          \o render_inline(strip(SubSeq(raw, Hashes(raw) + 1, Len(raw))))
                          \o <<HTagClose[Hashes(raw)]>>
       /\ (lines = <<HeadingLine>> /\ pc = "loop" /\ pc' = "done")
            => result' = <<"<h1>", "H", "e", "a", "d", "i", "n", "g", "</h1>">>
      ]_vars

\* C13 witness: the line "## *h*" has been rendered as <h2><em>h</em></h2>
\* and the line "###### h" after it as <h6>h</h6>
C13_Witness ==
    /\ branch = "heading"
    /\ Len(out) = 2
    /\ out[1] = <<"<h2>", "<em>", "h", "</em>", "</h2>">>
    /\ out[2] = <<"<h6>", "h", "</h6>">>

\* C14: two inputs that differ only in their line terminators (LF, CRLF or
\* a lone CR in the place of each LF) are rendered to the same text: the
\* second call returns what the first, on the LF form, returned.
C14_LineTerminators ==
    (pc = "done" /\ results # <<>>) => result = results[1]

\* C14 witness: a call on an input with a CRLF and a lone CR terminator has
\* returned, after the call on its LF form
C14_Witness ==
    /\ pc = "done"
    /\ results # <<>>
    /\ Occurs(markdown, CRLF)
    /\ \E k \in 1..Len(markdown) :
           /\ markdown[k] = "\r"
           /\ k < Len(markdown)
           /\ markdown[k + 1] # "\n"
    /\ Len(lines) = Len(Example)

ExampleResult ==
    <<"<h1>", "T", "i", "t", "l", "e", "</h1>", "\n",
      "<ul>", "\n",
      "<li>", "o", "n", "e", "</li>", "\n",
      "<li>", "t", "w", "o", "</li>", "\n",
      "</ul>", "\n",
      "<p>", "\n",
      "<strong>", "b", "o", "l", "d", "</strong>", " ", "\n",
      "</p>">>

\* C15: for the lines "# Title", "", "- one", "- two", "", "**bold**" the
\* returned text is, in this order and with nothing else: the heading
\* around Title, one unordered list with the two items one and two, closed,
\* and then one paragraph with one <strong> pair around bold, closed.
C15_Example ==
    (pc = "done" /\ lines = Example) => result = ExampleResult

\* C15 witness: the example document, given with CRLF terminators, has been
\* rendered
C15_Witness ==
    /\ pc = "done"
    /\ lines = Example
    /\ Occurs(markdown, CRLF)
    /\ Occurs(result, <<"<strong>", "b", "o", "l", "d", "</strong>">>)

\* some statement of the function applies: a branch of the loop body, or
\* the statements after the loop
SomeBranch ==
    \/ InLoop /\ IsFenceOpen
    \/ AtCode
    \/ AtBlank
    \/ AtTable
    \/ AtRule
    \/ AtHeading
    \/ AtQuote
    \/ AtLists
    \/ pc = "loop" /\ i >= Len(lines)

\* the line l, met at index k (from 0) outside a fence, is not blank and
\* matches none of the fence, table-header, horizontal-rule, heading,
\* blockquote and list-item tests
UnclassifiedLine(l, k) ==
    /\ ~IsFence(l)
    /\ strip(l) # <<>>
    /\ ~(/\ Contains(l, "|")
         /\ k + 1 < Len(lines)
         /\ is_separator_row(lines[k + 2]))
    /\ ~IsRule(l)
    /\ ~IsHeading(l)
    /\ ~startswith(l, <<">">>)
    /\ ~IsUl(l) /\ ~IsOl(l)

\* C16: a call has no error outcome and every line that no block test
\* matches is rendered as paragraph text.  The function is always in its
\* loop or has returned the joined output; in the loop some statement
\* applies to every state, and the index stays within the input; and when
\* the line just handled (not as part of a table, and outside a fence) is
\* one that no test matches, it was handled by the paragraph branch: a
\* paragraph is open and the last fragment is its inline-rendered text and
\* a blank.
C16_PermissiveFallthrough ==
    /\ pc \in {"loop", "done"}
    /\ pc = "loop" => (i <= Len(lines) /\ SomeBranch)
    /\ pc = "done" => result = strip(join(out, <<"\n">>))
    /\ (/\ pc = "loop" /\ i >= 1
        /\ branch # "table"
        /\ ~in_code
        /\ UnclassifiedLine(rstrip(lines[i]), i - 1))
         => /\ branch = "para"
            /\ in_para
            /\ out[Len(out)] = render_inline(rstrip(lines[i])) \o <<" ">>

\* C16 witness: the call on a document with the line "<&>" has returned,
\* the line rendered as the text of a paragraph
C16_Witness ==
    /\ pc = "done"
    /\ lines = << <<"<", "&", ">">> >>
    /\ out = << <<"<p>">>, LT \o AMP \o GT \o <<" ">>, <<"</p>">> >>

----------------------------------------------------------------------------
(* html_to_markdown_light                                                  *)

\* number of pieces an argument of html_to_markdown_light is made of
MaxHtmlChunks == 3

\* re.IGNORECASE on the letters the inputs hold in upper case
lower(c) ==
    CASE c = "A" -> "a" [] c = "B" -> "b" [] c = "H" -> "h"
      [] c = "I" -> "i" [] c = "L" -> "l" [] c = "P" -> "p"
      [] c = "R" -> "r" [] c = "U" -> "u"
      [] OTHER -> c

\* s[p..] starts with the lower-case literal lit, whatever the case of s
MatchCI(s, p, lit) ==
    /\ p + Len(lit) - 1 <= Len(s)
    /\ \A k \in 1..Len(lit) : lower(s[p + k - 1]) = lit[k]

\* first position from p on where lit matches, 0 if there is none (.*?lit)
RECURSIVE FindCI(_, _, _)
FindCI(s, p, lit) ==
    IF p + Len(lit) - 1 > Len(s) THEN 0
    ELSE IF MatchCI(s, p, lit) THEN p
    ELSE FindCI(s, p + 1, lit)

NoMatch == [ok |-> FALSE, rep |-> <<>>, next |-> 0]

\* <name[^>]*>(.*?)</name> at p, replaced by pre \1 post
ElemMatch(s, p, pat) ==
    LET a == p + 1 + Len(pat.name)
        g == a + RunNot(s, a, ">")
        close == <<"<", "/">> \o pat.name \o <<">">>
        q == IF g <= Len(s) THEN FindCI(s, g + 1, close) ELSE 0
    IN  IF MatchCI(s, p, <<"<">> \o pat.name) /\ q # 0
        THEN [ok |-> TRUE,
              rep |-> pat.pre \o SubSeq(s, g + 1, q - 1) \o pat.post,
              next |-> q + Len(close)]
        ELSE NoMatch

\* <br\s*/?> at p, replaced by a newline
BrMatch(s, p) ==
    LET a == p + 3 + RunIn(s, p + 3, WS)
        b == IF a <= Len(s) /\ s[a] = "/" THEN a + 1 ELSE a
    IN  IF MatchCI(s, p, <<"<", "b", "r">>) /\ b <= Len(s) /\ s[b] = ">"
        THEN [ok |-> TRUE, rep |-> <<"\n">>, next |-> b + 1]
        ELSE NoMatch

HrefLit == <<"h", "r", "e", "f", "=", "\"">>

\* the rest of the anchor pattern, href="([^"]+)"[^>]*>(.*?)</a>, from q:
\* the position of the closing tag, 0 if the rest does not match
AnchorRest(s, q) ==
    LET u == q + Len(HrefLit)
        n == RunNot(s, u, "\"")
        g == u + n + 1 + RunNot(s, u + n + 1, ">")
    IN  IF MatchCI(s, q, HrefLit) /\ n >= 1 /\ u + n <= Len(s) /\ g <= Len(s)
        THEN FindCI(s, g + 1, <<"<", "/", "a", ">">>)
        ELSE 0

\* <a [^>]*href="([^"]+)"[^>]*>(.*?)</a> at p, replaced by [\2](\1); the
\* first [^>]* is greedy, so the href taken is the last one it can reach
AnchorMatch(s, p) ==
    LET a == p + 3
        Q == {q \in a..(a + RunNot(s, a, ">")) : AnchorRest(s, q) # 0}
    IN  IF MatchCI(s, p, <<"<", "a", " ">>) /\ Q # {}
        THEN LET q == CHOOSE x \in Q : \A y \in Q : y <= x
                 u == q + Len(HrefLit)
                 n == RunNot(s, u, "\"")
                 g == u + n + 1 + RunNot(s, u + n + 1, ">")
                 c == AnchorRest(s, q)
             IN  [ok |-> TRUE,
                  rep |-> <<"[">> \o SubSeq(s, g + 1, c - 1) \o <<"]", "(">>
                              \o SubSeq(s, u, u + n - 1) \o <<")">>,
                  next |-> c + 4]
        ELSE NoMatch

\* </?name[^>]*> at p, replaced by a newline
ListTagMatch(s, p, pat) ==
    LET a == IF MatchCI(s, p, <<"<", "/">> \o pat.name)
             THEN p + 2 + Len(pat.name)
             ELSE p + 1 + Len(pat.name)
        g == a + RunNot(s, a, ">")
    IN  IF /\ (MatchCI(s, p, <<"<", "/">> \o pat.name)
                  \/ MatchCI(s, p, <<"<">> \o pat.name))
           /\ g <= Len(s)
        THEN [ok |-> TRUE, rep |-> <<"\n">>, next |-> g + 1]
        ELSE NoMatch

Fence3Lit == <<Backtick, Backtick, Backtick>>
CodeOpenLit == <<"<", "c", "o", "d", "e">>
PreCloseLit ==
    <<"<", "/", "c", "o", "d", "e", ">", "<", "/", "p", "r", "e", ">">>

\* <pre[^>]*><code[^>]*>(.*?)</code></pre> at p, replaced by a fenced block
PreCodeMatch(s, p) ==
    LET g1 == p + 4 + RunNot(s, p + 4, ">")
        a == g1 + 1 + Len(CodeOpenLit)
        g2 == a + RunNot(s, a, ">")
        q == IF g2 <= Len(s) THEN FindCI(s, g2 + 1, PreCloseLit) ELSE 0
    IN  IF /\ MatchCI(s, p, <<"<", "p", "r", "e">>)
           /\ g1 <= Len(s)
           /\ MatchCI(s, g1 + 1, CodeOpenLit)
           /\ q # 0
        THEN [ok |-> TRUE,
              rep |-> Fence3Lit \o <<"\n">> \o SubSeq(s, g2 + 1, q - 1)
                          \o <<"\n">> \o Fence3Lit,
              next |-> q + Len(PreCloseLit)]
        ELSE NoMatch

\* <[^>]+> at p, replaced by nothing
TagMatch(s, p) ==
    LET n == RunNot(s, p + 1, ">")
    IN  IF s[p] = "<" /\ n >= 1 /\ p + 1 + n <= Len(s)
        THEN [ok |-> TRUE, rep |-> <<>>, next |-> p + n + 2]
        ELSE NoMatch

PatternMatch(s, p, pat) ==
    CASE pat.kind = "elem" -> ElemMatch(s, p, pat)
      [] pat.kind = "br" -> BrMatch(s, p)
      [] pat.kind = "a" -> AnchorMatch(s, p)
      [] pat.kind = "list" -> ListTagMatch(s, p, pat)
      [] pat.kind = "precode" -> PreCodeMatch(s, p)
      [] pat.kind = "tag" -> TagMatch(s, p)

\* re.sub(pattern, replacement, s), scanning from p
RECURSIVE re_sub(_, _, _)
re_sub(s, p, pat) ==
    IF p > Len(s) THEN <<>>
    ELSE LET m == PatternMatch(s, p, pat)
         IN  IF m.ok THEN m.rep \o re_sub(s, m.next, pat)
             ELSE <<s[p]>> \o re_sub(s, p + 1, pat)

Elem(name, pre, post) == [kind |-> "elem", name |-> name, pre |-> pre, post |-> post]
Other(kind, name) == [kind |-> kind, name |-> name, pre |-> <<>>, post |-> <<>>]

\* the substitutions of the function without the last one
Substitutions_no_strip ==
    << Elem(<<"h", "1">>, <<"#", " ">>, <<"\n", "\n">>),
       Elem(<<"h", "2">>, <<"#", "#", " ">>, <<"\n", "\n">>),
       Elem(<<"h", "3">>, <<"#", "#", "#", " ">>, <<"\n", "\n">>),
       Elem(<<"p">>, <<>>, <<"\n", "\n">>),
       Other("br", <<>>),
       Elem(<<"s", "t", "r", "o", "n", "g">>, <<"*", "*">>, <<"*", "*">>),
       Elem(<<"b">>, <<"*", "*">>, <<"*", "*">>),
       Elem(<<"e", "m">>, <<"*">>, <<"*">>),
       Elem(<<"i">>, <<"*">>, <<"*">>),
       Other("a", <<>>),
       Elem(<<"l", "i">>, <<"-", " ">>, <<"\n">>),
       Other("list", <<"u", "l">>),
       Other("list", <<"o", "l">>),
       Other("precode", <<>>),
       Elem(<<"c", "o", "d", "e">>, <<Backtick>>, <<Backtick>>) >>

\* the substitutions of the function, in order
Substitutions == Append(Substitutions_no_strip, Other("tag", <<>>))

HtmlChunks ==
    { <<"<">>,
      <<">">>,
      <<"x">>,
      <<"\n">>,
      <<"<", "b", ">">>,
      <<"<", "/", "B", ">">>,
      <<"<", "P", " ", "i", "d", ">">>,
      <<"<", "/", "p", ">">>,
      <<"<", "a", " ", "h", "r", "e", "f", "=", "\"", "u", "\"", ">">>,
      <<"<", "/", "a", ">">>,
      <<"<", "b", "r", " ", "/", ">">>,
      <<"<", "l", "i", ">">>,
      <<"<", "/", "l", "i", ">">>,
      <<"<", "d", "i", "v", ">">> }

InitHtml ==
    /\ \E n \in 0..MaxHtmlChunks : \E c \in [1..n -> HtmlChunks] :
           html = concat(c)
    /\ html_text = html
    /\ html_k = 1
    /\ IdleBut("html")

\* one text = re.sub(...) statement
Substitute ==
    /\ html_k \in 1..Len(Substitutions)
    /\ html_text' = re_sub(html_text, 1, Substitutions[html_k])
    /\ html_k' = html_k + 1
    /\ UNCHANGED <<html, mdVars, callVars, inlVars, sqlVars, oraVars, figVars, toolVars>>

\* return text.strip()
HtmlReturn ==
    /\ html_k = Len(Substitutions) + 1
    /\ html_text' = strip(html_text)
    /\ html_k' = html_k + 1
    /\ UNCHANGED <<html, mdVars, callVars, inlVars, sqlVars, oraVars, figVars, toolVars>>

NextHtml ==
    \/ Substitute
    \/ HtmlReturn

SpecHtml == InitHtml /\ [][NextHtml]_vars

HtmlReturned == html_k = Len(Substitutions) + 2

\* s holds a tag: "<", one or more characters other than ">", and ">"
HasTag(s) ==
    \E p \in 1..Len(s) :
        /\ s[p] = "<"
        /\ RunNot(s, p + 1, ">") >= 1
        /\ p + 1 + RunNot(s, p + 1, ">") <= Len(s)

\* C17: the text html_to_markdown_light returns holds no tag, whatever the
\* input: no "<" followed by one or more non-">" characters and a ">".
C17_NoTagLeft ==
    HtmlReturned => ~HasTag(html_text)

\* C17 witness: for the input "<<div>>", which holds a tag, the text ">"
\* has been returned: the tag is gone and a bracket is left
C17_Witness ==
    /\ HtmlReturned
    /\ html = <<"<", "<", "d", "i", "v", ">", ">">>
    /\ html_text = <<">">>

----------------------------------------------------------------------------
(* mysql_cli: the select command                                           *)
(*                                                                         *)
(* A query text is a sequence of tokens: a word, ";" or a blank.  No two   *)
(* words written one after the other spell a keyword, so a run of tokens   *)
(* without a blank is a keyword only if it is one word.                    *)

\* number of tokens of a query text
MaxQueryTokens == 4

QueryTokens == {"SELECT", "select", "show", "DROP", "insert", "t", ";", " "}

\* str.upper() of a token
upper(w) ==
    CASE w = "select" -> "SELECT"
      [] w = "show" -> "SHOW"
      [] w = "insert" -> "INSERT"
      [] w = "t" -> "T"
      [] OTHER -> w

\* allowed of _normalize_query
allowed == {"SELECT", "WITH", "EXPLAIN", "SHOW", "DESCRIBE", "DESC"}

\* q.split(None, 1)[0] of a stripped, non-empty q: the tokens before the
\* first blank
first_token(q) == SubSeq(q, 1, RunNot(q, 1, " "))

\* q = query.strip(); if q.endswith(";"): q = q[:-1].strip()
strip_query(query) ==
    LET q == strip(query)
    IN  IF q # <<>> /\ q[Len(q)] = ";" THEN strip(SubSeq(q, 1, Len(q) - 1))
        ELSE q

\* _normalize_query of mysql_cli: the text it returns, or the SystemExit
mysql_normalize_query(query) ==
    LET q == strip_query(query)
    IN  IF q = <<>> THEN [exit |-> "[ERROR] Empty query", q |-> <<>>]
        ELSE IF ~(Len(first_token(q)) = 1 /\ upper(q[1]) \in allowed)
        THEN [exit |-> "[ERROR] Only read-only queries are allowed",
              q |-> <<>>]
        ELSE [exit |-> "none", q |-> q]

InitSql ==
    /\ sql_source \in {"query", "query_file", "stdin", "tty"}
    /\ \E n \in 0..MaxQueryTokens : sql_query \in [1..n -> QueryTokens]
    /\ sql_pc = "account"
    /\ sql_sent = <<>>
    /\ sql_exit = "none"
    /\ IdleBut("mysql")

\* _select_account(_load_accounts(), args.account), _resolve_schema: the
\* accounts of the environment are usable or the command ends
SqlAccount ==
    /\ sql_pc = "account"
    /\ \/ sql_pc' = "read" /\ sql_exit' = sql_exit
       \/ sql_pc' = "exit" /\ sql_exit' = "[ERROR] account"
    /\ UNCHANGED <<sql_source, sql_query, sql_sent>>
    /\ UNCHANGED <<mdVars, callVars, inlVars, htmVars, oraVars, figVars, toolVars>>

\* the query is taken from --query, --query-file or stdin
SqlReadQuery ==
    /\ sql_pc = "read"
    /\ IF sql_source = "tty"
       THEN sql_pc' = "exit"
            /\ sql_exit' = "[ERROR] Provide --query/--query-file or pipe SQL via stdin."
       ELSE sql_pc' = "normalize" /\ sql_exit' = sql_exit
    /\ UNCHANGED <<sql_source, sql_query, sql_sent>>
    /\ UNCHANGED <<mdVars, callVars, inlVars, htmVars, oraVars, figVars, toolVars>>

\* query = _normalize_query(query)
SqlNormalize ==
    /\ sql_pc = "normalize"
    /\ LET r == mysql_normalize_query(sql_query)
       IN  IF r.exit # "none"
           THEN sql_pc' = "exit" /\ sql_exit' = r.exit
           ELSE sql_pc' = "run" /\ sql_exit' = sql_exit
    /\ UNCHANGED <<sql_source, sql_query, sql_sent>>
    /\ UNCHANGED <<mdVars, callVars, inlVars, htmVars, oraVars, figVars, toolVars>>

\* proc = _run_mysql(query, account, schema) and the code after it: there
\* is no mysql client, or the client is given the normalized text and
\* succeeds or fails
SqlRun ==
    /\ sql_pc = "run"
    /\ \/ /\ sql_sent' = sql_sent
          /\ sql_exit' = "[ERROR] mysql client not found"
       \/ /\ sql_sent' = Append(sql_sent, mysql_normalize_query(sql_query).q)
          /\ sql_exit' \in {"0", "[ERROR] mysql failed"}
    /\ sql_pc' = "exit"
    /\ UNCHANGED <<sql_source, sql_query>>
    /\ UNCHANGED <<mdVars, callVars, inlVars, htmVars, oraVars, figVars, toolVars>>

NextSql ==
    \/ SqlAccount
    \/ SqlReadQuery
    \/ SqlNormalize
    \/ SqlRun

SpecSql == InitSql /\ [][NextSql]_vars

\* the statements of a text: its parts between ";", without the empty ones
StatementsOf(text) ==
    LET parts == split(text, ";")
    IN  {strip(parts[k]) : k \in 1..Len(parts)} \ {<<>>}

ReadOnlyStatement(st) == Len(first_token(st)) = 1 /\ upper(st[1]) \in allowed

Modifying == {"INSERT", "UPDATE", "DELETE", "DROP"}

ModifyingStatement(st) == Len(first_token(st)) = 1 /\ upper(st[1]) \in Modifying

\* C18: every text given to the mysql client is made of read-only
\* statements only, and a command whose input holds a data-modifying
\* statement ends in a SystemExit with nothing given to the client.
C18_ReadOnlyOnly ==
    /\ \A k \in 1..Len(sql_sent) :
           \A st \in StatementsOf(sql_sent[k]) : ReadOnlyStatement(st)
    /\ (\E st \in StatementsOf(sql_query) : ModifyingStatement(st))
         => /\ sql_sent = <<>>
            /\ sql_exit # "0"

----------------------------------------------------------------------------
(* oracle_cli: the test and select commands                                *)

\* _normalize_query of oracle_cli: the text it returns, or the SystemExit
oracle_normalize_query(query) ==
    LET q == strip_query(query)
    IN  IF q # <<>> /\ upper(q[1]) = "SELECT"
        THEN [exit |-> "none", q |-> q]
        ELSE [exit |-> "[ERROR] Only SELECT queries are allowed.", q |-> <<>>]

Engines == {"auto", "jdbc", "sqlplus"}

InitOra ==
    /\ ora_cmd \in {"test", "select"}
    /\ ora_engine \in Engines
    /\ \E n \in 0..MaxQueryTokens :
           /\ ora_query \in [1..n -> QueryTokens]
           /\ ora_cmd = "test" => n = 0
    /\ ora_pc = "config"
    /\ ora_java_rc = "none"
    /\ ora_calls = <<>>
    /\ ora_exit = "none"
    /\ IdleBut("oracle")

\* cfg = _oracle_config(): the environment holds the connection settings or
\* the command ends
OraConfig ==
    /\ ora_pc = "config"
    /\ \/ /\ ora_pc' = IF ora_cmd = "select" THEN "read" ELSE "engine"
          /\ ora_exit' = ora_exit
       \/ /\ ora_pc' = "exit"
          /\ ora_exit' = "[ERROR] config"
    /\ UNCHANGED <<ora_cmd, ora_engine, ora_query, ora_java_rc, ora_calls>>
    /\ UNCHANGED <<mdVars, callVars, inlVars, htmVars, sqlVars, figVars, toolVars>>

\* cmd_select: the query is read (or there is none to read) and normalized
OraReadQuery ==
    /\ ora_pc = "read"
    /\ \/ /\ ora_pc' = "exit"
          /\ ora_exit' = "[ERROR] Provide --query/--query-file or pipe SQL via stdin."
       \/ LET r == oracle_normalize_query(ora_query)
          IN  IF r.exit # "none"
              THEN ora_pc' = "exit" /\ ora_exit' = r.exit
              ELSE ora_pc' = "engine" /\ ora_exit' = ora_exit
    /\ UNCHANGED <<ora_cmd, ora_engine, ora_query, ora_java_rc, ora_calls>>
    /\ UNCHANGED <<mdVars, callVars, inlVars, htmVars, sqlVars, figVars, toolVars>>

\* what _run_java does: it raises SystemExit before java is run (no jar,
\* no JDK, javac fails), or it runs java and returns its exit status
JavaOutcomes == {"[ERROR] jdbc", "0", "1"}

\* try: rc = _run_java(...); raise SystemExit(0 if rc == 0 else rc)
\* except SystemExit: if engine == "jdbc": raise
\* Every SystemExit of the try block, the one raised after a java run that
\* returned 0 included, is caught; it is raised again only for jdbc.
JdbcBlock(outcome) ==
    /\ ora_java_rc' = outcome
    /\ ora_calls' = IF outcome \in {"0", "1"} THEN Append(ora_calls, "java")
                    ELSE ora_calls
    /\ IF ora_engine = "jdbc"
       THEN ora_pc' = "exit" /\ ora_exit' = outcome
       ELSE ora_pc' = "sqlplus" /\ ora_exit' = ora_exit

\* if engine in ("auto", "jdbc"): the try block above
OraJdbc ==
    /\ ora_pc = "engine"
    /\ ora_engine \in {"auto", "jdbc"}
    /\ \E outcome \in JavaOutcomes : JdbcBlock(outcome)
    /\ UNCHANGED <<ora_cmd, ora_engine, ora_query>>
    /\ UNCHANGED <<mdVars, callVars, inlVars, htmVars, sqlVars, figVars, toolVars>>

\* engine is sqlplus: the try block is skipped
OraSkipJdbc ==
    /\ ora_pc = "engine"
    /\ ora_engine = "sqlplus"
    /\ ora_pc' = "sqlplus"
    /\ UNCHANGED <<ora_cmd, ora_engine, ora_query, ora_java_rc, ora_calls,
                   ora_exit>>
    /\ UNCHANGED <<mdVars, callVars, inlVars, htmVars, sqlVars, figVars, toolVars>>

\* rc = _run_sqlplus(sql, cfg); raise SystemExit(0 if rc == 0 else rc):
\* there is no sqlplus, or it is run and its exit status is the command's
OraSqlplus ==
    /\ ora_pc = "sqlplus"
    /\ \/ /\ ora_calls' = ora_calls
          /\ ora_exit' = "[ERROR] sqlplus not found"
       \/ /\ ora_calls' = Append(ora_calls, "sqlplus")
          /\ ora_exit' \in {"0", "1"}
    /\ ora_pc' = "exit"
    /\ UNCHANGED <<ora_cmd, ora_engine, ora_query, ora_java_rc>>
    /\ UNCHANGED <<mdVars, callVars, inlVars, htmVars, sqlVars, figVars, toolVars>>

NextOra ==
    \/ OraConfig
    \/ OraReadQuery
    \/ OraJdbc
    \/ OraSkipJdbc
    \/ OraSqlplus

SpecOra == InitOra /\ [][NextOra]_vars

\* C19: in auto mode sqlplus is a fallback only: once _run_java has
\* returned 0, sqlplus is not run, and the command ends with exit status 0
\* after the one java run.
C19_SqlplusOnlyAsFallback ==
    (ora_engine = "auto" /\ ora_java_rc = "0")
        => /\ \A k \in 1..Len(ora_calls) : ora_calls[k] # "sqlplus"
           /\ ora_pc = "exit" => (ora_calls = <<"java">> /\ ora_exit = "0")

----------------------------------------------------------------------------
(* figma_cli: _http_json and _download_bytes                               *)

\* largest max_retries argument
MaxRetries == 2

\* the Retry-After header of a 429 answer: absent, or a number of seconds
RetryAfterHeaders == {"absent", "1", "2"}

\* int() of the strings it is given here
int(str) ==
    CASE str = "1" -> 1
      [] str = "2" -> 2
      [] str = "60" -> 60

\* retry_after of _parse_rate_limit_headers
retry_after(header) == int(IF header = "absent" THEN "60" ELSE header)

NoResponse == [code |-> "none", retry_after |-> "absent"]

InitFig ==
    /\ fig_fn \in {"_http_json", "_download_bytes"}
    /\ fig_auto_retry \in BOOLEAN
    /\ fig_max_retries \in 0..MaxRetries
    /\ fig_retries = 0
    /\ fig_attempts = 0
    /\ fig_response = NoResponse
    /\ fig_sleeps = <<>>
    /\ fig_pc = "request"
    /\ fig_exit = "none"
    /\ IdleBut("figma")

\* _http_json builds its request with _auth_headers(), which ends the call
\* when the environment holds no token; the environment does not change
\* during a call, so this happens before the first urlopen or never
FigMissingAuth ==
    /\ fig_pc = "request"
    /\ fig_fn = "_http_json"
    /\ fig_attempts = 0
    /\ fig_pc' = "done"
    /\ fig_exit' = "[ERROR] Missing Figma auth"
    /\ UNCHANGED <<fig_fn, fig_auto_retry, fig_max_retries, fig_retries,
                   fig_attempts, fig_response, fig_sleeps>>
    /\ UNCHANGED <<mdVars, callVars, inlVars, htmVars, sqlVars, oraVars, toolVars>>

\* urlopen succeeds: the body is returned (by _http_json only if it is
\* JSON; json.loads raises ValueError otherwise)
FigSuccess ==
    /\ fig_pc = "request"
    /\ fig_attempts' = fig_attempts + 1
    /\ fig_response' = [code |-> "200", retry_after |-> "absent"]
    /\ fig_pc' = "done"
    /\ \/ fig_exit' = "return"
       \/ fig_fn = "_http_json" /\ fig_exit' = "ValueError"
    /\ UNCHANGED <<fig_fn, fig_auto_retry, fig_max_retries, fig_retries,
                   fig_sleeps>>
    /\ UNCHANGED <<mdVars, callVars, inlVars, htmVars, sqlVars, oraVars, toolVars>>

\* 429 branch that retries while retries <= max_retries
RateLimited_one_more(header) ==
    /\ fig_response' = [code |-> "429", retry_after |-> header]
    /\ IF fig_auto_retry /\ fig_retries <= fig_max_retries
       THEN /\ fig_retries' = fig_retries + 1
            /\ fig_sleeps' = Append(fig_sleeps, retry_after(header))
            /\ fig_pc' = "request"
            /\ fig_exit' = fig_exit
       ELSE /\ fig_retries' = fig_retries
            /\ fig_sleeps' = fig_sleeps
            /\ fig_pc' = "done"
            /\ fig_exit' = "[RATE_LIMIT]"

\* except HTTPError with e.code == 429
RateLimited(header) ==
    /\ fig_response' = [code |-> "429", retry_after |-> header]
    /\ IF fig_auto_retry /\ fig_retries < fig_max_retries
       THEN /\ fig_retries' = fig_retries + 1
            /\ fig_sleeps' = Append(fig_sleeps, retry_after(header))
            /\ fig_pc' = "request"
            /\ fig_exit' = fig_exit
       ELSE /\ fig_retries' = fig_retries
            /\ fig_sleeps' = fig_sleeps
            /\ fig_pc' = "done"
            /\ fig_exit' = "[RATE_LIMIT]"

\* urlopen raises HTTPError 429
Fig429 ==
    /\ fig_pc = "request"
    /\ fig_attempts' = fig_attempts + 1
    /\ \E header \in RetryAfterHeaders : RateLimited(header)
    /\ UNCHANGED <<fig_fn, fig_auto_retry, fig_max_retries>>
    /\ UNCHANGED <<mdVars, callVars, inlVars, htmVars, sqlVars, oraVars, toolVars>>

\* urlopen raises an HTTPError with another code
FigHttpError ==
    /\ fig_pc = "request"
    /\ fig_attempts' = fig_attempts + 1
    /\ fig_response' \in {[code |-> c, retry_after |-> "absent"] :
                             c \in {"403", "500"}}
    /\ fig_pc' = "done"
    /\ fig_exit' = IF fig_fn = "_http_json" THEN "[ERROR] Figma API error"
                   ELSE "[ERROR] Download error"
    /\ UNCHANGED <<fig_fn, fig_auto_retry, fig_max_retries, fig_retries,
                   fig_sleeps>>
    /\ UNCHANGED <<mdVars, callVars, inlVars, htmVars, sqlVars, oraVars, toolVars>>

\* urlopen raises URLError
FigUrlError ==
    /\ fig_pc = "request"
    /\ fig_attempts' = fig_attempts + 1
    /\ fig_response' = [code |-> "URLError", retry_after |-> "absent"]
    /\ fig_pc' = "done"
    /\ fig_exit' = "[ERROR] Network error"
    /\ UNCHANGED <<fig_fn, fig_auto_retry, fig_max_retries, fig_retries,
                   fig_sleeps>>
    /\ UNCHANGED <<mdVars, callVars, inlVars, htmVars, sqlVars, oraVars, toolVars>>

NextFig ==
    \/ FigMissingAuth
    \/ FigSuccess
    \/ Fig429
    \/ FigHttpError
    \/ FigUrlError

SpecFig == InitFig /\ [][NextFig]_vars

\* the call made no request: it ended in _auth_headers
NoRequestMade == fig_exit = "[ERROR] Missing Figma auth"

----------------------------------------------------------------------------
(* Block contexts and the line cursor of markdown_to_storage               *)

\* the closing tags of the open paragraph, lists and blockquote, in the
\* order close_para, close_lists, close_quote emit them
Closings ==
    (IF in_para THEN << <<"</p>">> >> ELSE <<>>)
        \o (IF in_ul THEN << <<"</ul>">> >> ELSE <<>>)
        \o (IF in_ol THEN << <<"</ol>">> >> ELSE <<>>)
        \o (IF in_quote THEN << <<"</blockquote>">> >> ELSE <<>>)

ClosingTags == { <<"</p>">>, <<"</ul>">>, <<"</ol>">>, <<"</blockquote>">> }

\* the branches that end every open context
ClosingBranches == {"blank", "fence", "table", "rule", "heading"}

\* the first fragment of the markup each of these branches emits for the
\* line lines[i] (none for a blank line)
FirstMarkup ==
    CASE branch' = "fence" -> <<"<pre>", "<code>">>
      [] branch' = "table" -> <<"<table>">>
      [] branch' = "rule" -> <<"<hr/>">>
      [] branch' = "heading" -> <<HTagOpen[HeadingLevel(line)]>>
      [] OTHER -> <<>>

\* C25: a step that handles a blank line, a fence-opening line, a table, a
\* horizontal rule or a heading leaves in_para, in_ul, in_ol and in_quote
\* all false; what it appends starts with the closing tag of every context
\* that was open, the line's own markup comes after them, and no closing
\* tag comes after the markup has begun.
C25_ContextsClosedFirst ==
    [][(i' > i /\ branch' \in ClosingBranches) =>
          /\ ~in_para' /\ ~in_ul' /\ ~in_ol' /\ ~in_quote'
          /\ Len(Added) >= Len(Closings)
          /\ SubSeq(Added, 1, Len(Closings)) = Closings
          /\ \A k \in (Len(Closings) + 1)..Len(Added) : Added[k] \notin ClosingTags
          /\ (branch' = "blank") <=> (Len(Added) = Len(Closings))
          /\ (branch' # "blank") =>
                StartsAt(Added[Len(Closings) + 1], 1, FirstMarkup)
      ]_vars

\* C25 witness: after "> q" and the heading "# h" the output holds the
\* paragraph's and the blockquote's closing tags before <h1>
C25_Witness ==
    /\ pc = "loop" /\ i = 2
    /\ branch = "heading"
    /\ out = << <<"<blockquote>">>, <<"<p>">>, <<"q", " ">>,
                <<"</p>">>, <<"</blockquote>">>, <<"<h1>", "h", "</h1>">> >>
    /\ ~in_para /\ ~in_quote

\* some flag changes in the step
FlagChange ==
    <<in_ul, in_ol, in_para, in_quote, in_code>>'
        # <<in_ul, in_ol, in_para, in_quote, in_code>>

\* C26: while in_code is true the four other flags are false, and a step
\* taken with in_code true changes a flag exactly when its line, without
\* trailing whitespace, is three backticks; that step sets in_code to
\* false, changes no other flag and emits </code></pre>.
C26_CodeModeSuppresses ==
    [][/\ in_code => (~in_ul /\ ~in_ol /\ ~in_para /\ ~in_quote)
       /\ in_code' => (~in_ul' /\ ~in_ol' /\ ~in_para' /\ ~in_quote')
       /\ (in_code /\ i' > i) =>
             /\ FlagChange <=> (rstrip(lines[i + 1]) = Fence3)
             /\ FlagChange =>
                   /\ ~in_code'
                   /\ Added = << <<"</code>", "</pre>">> >>
      ]_vars

\* C26 witness: inside a fence the line "```p" was emitted as content and
\* the line "```" then closed the fence
C26_Witness ==
    /\ lines = << Fence3, Fence3 \o <<"p">>, Fence3 >>
    /\ i = 3 /\ ~in_code
    /\ out = << <<"<pre>", "<code>">>, Fence3 \o <<"p">>, <<"</code>", "</pre>">> >>

\* the number of branches of the loop body whose condition holds
BranchesTaken ==
    Cardinality({b \in 1..8 :
        CASE b = 1 -> InLoop /\ IsFenceOpen
          [] b = 2 -> AtCode
          [] b = 3 -> AtBlank
          [] b = 4 -> AtTable
          [] b = 5 -> AtRule
          [] b = 6 -> AtHeading
          [] b = 7 -> AtQuote
          [] b = 8 -> AtLists})

\* C27: in the loop the cursor stays within the input and exactly one
\* branch of the body applies to the line at the cursor; every step of the
\* loop moves the cursor forward, by one line, or in the table branch by
\* two lines and the run of rows after them, never past the last line; and
\* the function returns when the cursor equals the number of lines, and
\* only then.
C27_CursorAdvances ==
    [][pc = "loop" =>
          /\ i <= Len(lines)
          /\ i < Len(lines) => BranchesTaken = 1
          /\ i' <= Len(lines)
          /\ (pc' = "loop") <=> (i < Len(lines))
          /\ (pc' = "loop" /\ branch' # "table") => i' = i + 1
          /\ (pc' = "loop" /\ branch' = "table") =>
                /\ i' >= i + 2
                /\ \A k \in (i + 3)..i' : RowStripped(lines[k])
                /\ i' < Len(lines) => ~RowStripped(lines[i' + 1])
          /\ (pc' = "done") => (i' = i /\ i = Len(lines))
      ]_vars

\* C27 witness: the call on a header, a separator row, one row and a plain
\* line has returned; the table step moved the cursor from 0 to 3
C27_Witness ==
    /\ pc = "done"
    /\ lines = TableHead \o << <<"a", "|", "b">>, <<"t">> >>
    /\ i = 4
    /\ Count(out, <<"<table>">>) = 1

\* the block a fragment opens or closes ("" when it does neither)
OpenOf(f) ==
    CASE f = <<"<p>">> -> "p"
      [] f = <<"<ul>">> -> "ul"
      [] f = <<"<ol>">> -> "ol"
      [] f = <<"<blockquote>">> -> "blockquote"
      [] OTHER -> ""

CloseOf(f) ==
    CASE f = <<"</p>">> -> "p"
      [] f = <<"</ul>">> -> "ul"
      [] f = <<"</ol>">> -> "ol"
      [] f = <<"</blockquote>">> -> "blockquote"
      [] OTHER -> ""

IsItem(f) == f # <<>> /\ f[1] = "<li>"

\* the block tags open after the fragments o[k..], given the stack of the
\* block tags open before them (innermost first); <<"bad">> when a closing
\* tag does not close the innermost open block, or a <li> or <p> is
\* emitted inside an open <p>
RECURSIVE OpenBlocks(_, _, _)
OpenBlocks(o, k, stack) ==
    IF k > Len(o) THEN stack
    ELSE LET f == o[k]
             inP == \E n \in 1..Len(stack) : stack[n] = "p"
         IN  IF (IsItem(f) \/ OpenOf(f) = "p") /\ inP THEN <<"bad">>
             ELSE IF OpenOf(f) # "" THEN OpenBlocks(o, k + 1, <<OpenOf(f)>> \o stack)
             ELSE IF CloseOf(f) # ""
                  THEN IF stack # <<>> /\ Head(stack) = CloseOf(f)
                       THEN OpenBlocks(o, k + 1, Tail(stack))
                       ELSE <<"bad">>
             ELSE OpenBlocks(o, k + 1, stack)

\* C28: the block tags emitted so far are properly nested: every closing
\* tag closes the innermost block still open, and no <li> or <p> is
\* emitted inside an open <p>.
C28_ProperNesting == OpenBlocks(out, 1, <<>>) # <<"bad">>

----------------------------------------------------------------------------
(* memory_cli: the knowledge graph in the memory file                      *)

\* largest number of items in the input of one command
MaxBatch == 2

Names == {"A", "B"}

\* an observation that holds U+2028, which json.dumps(ensure_ascii=False)
\* writes as it is and str.splitlines takes as the end of a line
LineBreakText == "x{U+2028}y"

\* the number of line ends splitlines finds in a string
line_breaks(str) == IF str = LineBreakText THEN 1 ELSE 0

Entity(name, observations) ==
    [type |-> "entity", name |-> name, entityType |-> "t",
     observations |-> observations]

Relation(from, to) ==
    [type |-> "relation", from |-> from, to |-> to, relationType |-> "r"]

\* a line of the file that json.loads rejects
Garbage == [type |-> "garbage"]

RECURSIVE Sum(_)
Sum(ns) == IF ns = <<>> THEN 0 ELSE Head(ns) + Sum(Tail(ns))

\* the number of line ends in the JSON text of a record
RecordBreaks(rec) ==
    IF rec.type = "entity"
    THEN line_breaks(rec.name)
            + Sum([k \in 1..Len(rec.observations) |->
                      line_breaks(rec.observations[k])])
    ELSE line_breaks(rec.from) + line_breaks(rec.to)

\* the lines splitlines makes of the JSON text of a record: the record
\* itself, or the pieces of it, none of which is JSON
TextLines(rec) ==
    IF RecordBreaks(rec) = 0 THEN <<rec>>
    ELSE [k \in 1..(RecordBreaks(rec) + 1) |-> Garbage]

\* _save_graph: the file as _load_graph will split it
_save_graph(entities, relations) ==
    [exists |-> TRUE,
     lines |-> concat([k \in 1..Len(entities) |-> TextLines(entities[k])])
               \o concat([k \in 1..Len(relations) |-> TextLines(relations[k])])]

IsEntityLine(l) == l.type = "entity"
IsRelationLine(l) == l.type = "relation"

\* _load_graph
_load_graph(file) ==
    IF ~file.exists THEN [entities |-> <<>>, relations |-> <<>>]
    ELSE [entities |-> SelectSeq(file.lines, IsEntityLine),
          relations |-> SelectSeq(file.lines, IsRelationLine)]

NamesOf(entities) == {entities[k].name : k \in 1..Len(entities)}

\* an item of an input list that is not a JSON object
NotAnObject == [type |-> "string"]

IsObject(it) == it.type # "string"

\* the loop of cmd_create_entities that does not record the names it adds
RECURSIVE create_loop_stored_only(_, _, _, _)
create_loop_stored_only(incoming, entities, existing, created) ==
    IF incoming = <<>> THEN [entities |-> entities, created |-> created]
    ELSE LET it == Head(incoming)
         IN  IF ~IsObject(it) \/ it.name \in existing
             THEN create_loop_stored_only(Tail(incoming), entities,
                                          existing, created)
             ELSE create_loop_stored_only(Tail(incoming),
                      Append(entities, it), existing, Append(created, it))

\* the loop of cmd_create_entities
RECURSIVE create_loop(_, _, _, _)
create_loop(incoming, entities, existing, created) ==
    IF incoming = <<>> THEN [entities |-> entities, created |-> created]
    ELSE LET it == Head(incoming)
         IN  IF ~IsObject(it) \/ it.name \in existing
             THEN create_loop(Tail(incoming), entities, existing, created)
             ELSE create_loop(Tail(incoming), Append(entities, it),
                              existing \cup {it.name}, Append(created, it))

\* by_name.get(entity_name): the place of the entity in entities (0 when
\* there is none; the last one if the name were there twice)
by_name(entities, name) ==
    LET ks == {k \in 1..Len(entities) : entities[k].name = name}
    IN  IF ks = {} THEN 0 ELSE CHOOSE k \in ks : \A m \in ks : m <= k

RangeOfSeq(s) == {s[k] : k \in 1..Len(s)}

\* the loop of cmd_add_observations; name is the entity that is missing
\* when the loop ends in SystemExit
RECURSIVE add_loop(_, _, _)
add_loop(incoming, entities, added) ==
    IF incoming = <<>>
    THEN [ok |-> TRUE, name |-> "", entities |-> entities, results |-> added]
    ELSE LET it == Head(incoming)
             k == by_name(entities, it.entityName)
         IN  IF ~IsObject(it) THEN add_loop(Tail(incoming), entities, added)
             ELSE IF k = 0
             THEN [ok |-> FALSE, name |-> it.entityName,
                   entities |-> entities, results |-> added]
             ELSE LET has(c) == c \notin RangeOfSeq(entities[k].observations)
                      new_ones == SelectSeq(it.contents, has)
                  IN  add_loop(Tail(incoming),
                          [entities EXCEPT ![k].observations = @ \o new_ones],
                          Append(added, [entityName |-> it.entityName,
                                         contents |-> new_ones]))

\* the relations filter of cmd_delete_entities that looks at from only
delete_relations_of_from_only(relations, names_set) ==
    LET keep(r) == r.from \notin names_set
    IN  SelectSeq(relations, keep)

\* the relations filter of cmd_delete_entities
delete_relations_of(relations, names_set) ==
    LET keep(r) == r.from \notin names_set /\ r.to \notin names_set
    IN  SelectSeq(relations, keep)

\* the entities filter of cmd_delete_entities
delete_entities(entities, names_set) ==
    LET keep(e) == e.name \notin names_set
    IN  SelectSeq(entities, keep)

\* the loop of cmd_delete_observations
RECURSIVE delete_observations_loop(_, _)
delete_observations_loop(deletions, entities) ==
    IF deletions = <<>> THEN entities
    ELSE LET it == Head(deletions)
             k == by_name(entities, it.entityName)
             keep(o) == o \notin RangeOfSeq(it.observations)
         IN  IF k = 0 THEN delete_observations_loop(Tail(deletions), entities)
             ELSE delete_observations_loop(Tail(deletions),
                      [entities EXCEPT ![k].observations = SelectSeq(@, keep)])

\* the loop of cmd_create_relations
RECURSIVE create_relations_loop(_, _, _)
create_relations_loop(incoming, relations, created) ==
    IF incoming = <<>> THEN [relations |-> relations, created |-> created]
    ELSE LET it == Head(incoming)
         IN  IF it \in RangeOfSeq(relations)
             THEN create_relations_loop(Tail(incoming), relations, created)
             ELSE create_relations_loop(Tail(incoming),
                      Append(relations, it), Append(created, it))

\* the inputs of the commands on entities: lists of 1 to MaxBatch items
Batches(items) == UNION {[1..n -> items] : n \in 1..MaxBatch}

\* lists of one item
Singles(items) == {<<it>> : it \in items}

EntityItems ==
    { Entity("A", <<>>), Entity("B", <<"x">>), Entity("B", <<LineBreakText>>) }

ObservationItems ==
    { [type |-> "object", entityName |-> "A", contents |-> <<"x">>],
      [type |-> "object", entityName |-> "B", contents |-> <<"y", "y">>],
      NotAnObject }

DeletionItems ==
    { [entityName |-> "A", observations |-> <<"x">>],
      [entityName |-> "B", observations |-> <<"y">>] }

RelationItems == { Relation("A", "B"), Relation("B", "A"), Relation("B", "B") }

InitMem ==
    /\ mem_file \in {[exists |-> FALSE, lines |-> <<>>],
                     [exists |-> TRUE, lines |-> <<>>]}
    /\ mem_cmd = "none"
    /\ mem_input = <<>>
    /\ mem_out = <<>>
    /\ mem_exit = "none"
    /\ IdleBut("memory")

RestUnchangedByMem ==
    UNCHANGED <<mdVars, callVars, inlVars, htmVars, sqlVars, oraVars,
                figVars, cronVars>>

cmd_create_entities ==
    /\ \E incoming \in Batches(EntityItems) :
          LET g == _load_graph(mem_file)
              r == create_loop(incoming, g.entities, NamesOf(g.entities), <<>>)
          IN  /\ mem_input' = incoming
              /\ mem_file' = _save_graph(r.entities, g.relations)
              /\ mem_out' = r.created
    /\ mem_cmd' = "create-entities"
    /\ mem_exit' = "0"
    /\ RestUnchangedByMem

cmd_create_relations ==
    /\ \E incoming \in Singles(RelationItems) :
          LET g == _load_graph(mem_file)
              r == create_relations_loop(incoming, g.relations, <<>>)
          IN  /\ mem_input' = incoming
              /\ mem_file' = _save_graph(g.entities, r.relations)
              /\ mem_out' = r.created
    /\ mem_cmd' = "create-relations"
    /\ mem_exit' = "0"
    /\ RestUnchangedByMem

\* cmd_add_observations that saves what it has changed before it exits
cmd_add_observations_saves_first ==
    /\ \E incoming \in Batches(ObservationItems) :
          LET g == _load_graph(mem_file)
              r == add_loop(incoming, g.entities, <<>>)
          IN  /\ mem_input' = incoming
              /\ mem_file' = _save_graph(r.entities, g.relations)
              /\ IF r.ok
                 THEN /\ mem_out' = r.results
                      /\ mem_exit' = "0"
                 ELSE /\ mem_out' = <<>>
                      /\ mem_exit' = "[ERROR] Entity with name not found"
    /\ mem_cmd' = "add-observations"
    /\ RestUnchangedByMem

cmd_add_observations ==
    /\ \E incoming \in Batches(ObservationItems) :
          LET g == _load_graph(mem_file)
              r == add_loop(incoming, g.entities, <<>>)
          IN  /\ mem_input' = incoming
              /\ IF r.ok
                 THEN /\ mem_file' = _save_graph(r.entities, g.relations)
                      /\ mem_out' = r.results
                      /\ mem_exit' = "0"
                 ELSE /\ mem_file' = mem_file
                      /\ mem_out' = <<>>
                      /\ mem_exit' = "[ERROR] Entity with name not found"
    /\ mem_cmd' = "add-observations"
    /\ RestUnchangedByMem

cmd_delete_entities ==
    /\ \E names \in Batches(Names) :
          LET g == _load_graph(mem_file)
              names_set == RangeOfSeq(names)
          IN  /\ mem_input' = names
              /\ mem_file' = _save_graph(delete_entities(g.entities, names_set),
                                 delete_relations_of(g.relations, names_set))
    /\ mem_out' = <<"success">>
    /\ mem_cmd' = "delete-entities"
    /\ mem_exit' = "0"
    /\ RestUnchangedByMem

cmd_delete_observations ==
    /\ \E deletions \in Singles(DeletionItems) :
          LET g == _load_graph(mem_file)
          IN  /\ mem_input' = deletions
              /\ mem_file' = _save_graph(
                                 delete_observations_loop(deletions, g.entities),
                                 g.relations)
    /\ mem_out' = <<"success">>
    /\ mem_cmd' = "delete-observations"
    /\ mem_exit' = "0"
    /\ RestUnchangedByMem

cmd_delete_relations ==
    /\ \E incoming \in Singles(RelationItems) :
          LET g == _load_graph(mem_file)
              keep(r) == r \notin RangeOfSeq(incoming)
          IN  /\ mem_input' = incoming
              /\ mem_file' = _save_graph(g.entities, SelectSeq(g.relations, keep))
    /\ mem_out' = <<"success">>
    /\ mem_cmd' = "delete-relations"
    /\ mem_exit' = "0"
    /\ RestUnchangedByMem

NextMem ==
    \/ cmd_create_entities
    \/ cmd_create_relations
    \/ cmd_add_observations
    \/ cmd_delete_entities
    \/ cmd_delete_observations
    \/ cmd_delete_relations

SpecMem == InitMem /\ [][NextMem]_vars

\* the graph read from the memory file before and after a step
OldGraph == _load_graph(mem_file)
NewGraph == _load_graph(mem_file')

DistinctNames(entities) ==
    \A j, k \in 1..Len(entities) :
        j # k => entities[j].name # entities[k].name

\* a record whose text holds no line end: it is read back as it was saved
Readable(rec) == RecordBreaks(rec) = 0

\* C21: create-entities creates no entity whose name is in the stored
\* graph or earlier in its input, and reports exactly the entities it
\* created, in order; and from an empty memory file, after every command,
\* the names of the stored entities are pairwise distinct.
C21_DistinctNames ==
    [][/\ DistinctNames(NewGraph.entities)
       /\ mem_cmd' = "create-entities" =>
             LET created == mem_out'
             IN  /\ \A k \in 1..Len(created) :
                       /\ created[k].name \notin NamesOf(OldGraph.entities)
                       /\ created[k] \in RangeOfSeq(mem_input')
                 /\ DistinctNames(created)
                 /\ NewGraph.entities
                       = OldGraph.entities \o SelectSeq(created, Readable)
                 /\ NewGraph.relations = OldGraph.relations
      ]_vars

\* C21 witness: create-entities with A and B in its input, run on a file
\* that held A, has created and reported B only
C21_Witness ==
    /\ mem_cmd = "create-entities"
    /\ mem_input = <<Entity("A", <<>>), Entity("B", <<"x">>)>>
    /\ mem_out = <<Entity("B", <<"x">>)>>
    /\ _load_graph(mem_file).entities
          = <<Entity("A", <<"x">>), Entity("B", <<"x">>)>>

\* C22: after delete-entities with the names N the stored entities are the
\* entities stored before whose name is not in N, and the stored relations
\* are the relations stored before with neither end in N, each as it was
\* and in the order it had.
C22_DeleteEntities ==
    [][mem_cmd' = "delete-entities" =>
          LET N == RangeOfSeq(mem_input')
              other(e) == e.name \notin N
              apart(r) == r.from \notin N /\ r.to \notin N
          IN  /\ mem_exit' = "0"
              /\ NewGraph.entities = SelectSeq(OldGraph.entities, other)
              /\ NewGraph.relations = SelectSeq(OldGraph.relations, apart)
              /\ \A k \in 1..Len(NewGraph.entities) :
                    NewGraph.entities[k].name \notin N
              /\ \A k \in 1..Len(NewGraph.relations) :
                    /\ NewGraph.relations[k].from \notin N
                    /\ NewGraph.relations[k].to \notin N
      ]_vars

\* C22 witness: delete-entities of A has run and the file holds the entity
\* B and the relation from B to B
C22_Witness ==
    /\ mem_cmd = "delete-entities"
    /\ mem_input = <<"A">>
    /\ mem_file.lines = <<Entity("B", <<"x">>), Relation("B", "B")>>

\* the input names an entity that the graph does not hold
NamesMissingEntity(incoming, entities) ==
    \E k \in 1..Len(incoming) :
        /\ IsObject(incoming[k])
        /\ incoming[k].entityName \notin NamesOf(entities)

NotFound == "[ERROR] Entity with name not found"

NoRepeats(s) == \A j, k \in 1..Len(s) : j # k => s[j] # s[k]

NoRepeatedObservation(entities) ==
    \A k \in 1..Len(entities) : NoRepeats(entities[k].observations)

\* C29: add-observations run on a graph in which no entity has a repeated
\* observation leaves a graph in which no entity has one.
C29_NoRepeatedObservation ==
    [][(mem_cmd' = "add-observations"
          /\ NoRepeatedObservation(OldGraph.entities))
         => NoRepeatedObservation(NewGraph.entities)
      ]_vars

----------------------------------------------------------------------------
(* cron_manager: add_job, remove_job and update_job                        *)

JobIds == {"j1", "j2"}
Commands == {"c1", "c2"}
Schedules == {"s1"}

\* a job id without an entry in jobs.json, and a file that does not exist
NoJob == [command |-> "", schedule |-> "", notify |-> FALSE]
NoFile == [label |-> "", program |-> "", schedule |-> ""]

\* the plist text generate_plist returns: with notify the program is the
\* wrapper script, without it the command itself
generate_plist(job_id, command, schedule, notify) ==
    [label |-> job_id,
     program |-> IF notify THEN "script" ELSE command,
     schedule |-> schedule]

\* the wrapper script generate_plist writes when notify is set
script_after(job_id, command, notify) ==
    IF notify THEN [cron_script EXCEPT ![job_id] = command] ELSE cron_script

\* init_dirs: jobs.json exists afterwards, empty if it did not exist
init_dirs(data) == [exists |-> TRUE, jobs |-> data.jobs]

\* the exit codes of launchctl load
LoadCodes == {0, 1}

InitCron ==
    /\ cron_data = [exists |-> FALSE, jobs |-> [j \in JobIds |-> NoJob]]
    /\ cron_plist = [j \in JobIds |-> NoFile]
    /\ cron_script = [j \in JobIds |-> ""]
    /\ cron_loaded = [j \in JobIds |-> NoFile]
    /\ cron_call = [fn |-> "none", job_id |-> "", command |-> "",
                    schedule |-> "", notify |-> ""]
    /\ cron_exit = "none"
    /\ IdleBut("cron")

RestUnchangedByCron ==
    UNCHANGED <<mdVars, callVars, inlVars, htmVars, sqlVars, oraVars,
                figVars, memVars>>

\* the part of add_job after the test for an existing id, without the
\* removal of the plist when launchctl load fails
register_keeps_plist(job_id, command, schedule, notify, rc) ==
    LET plist == generate_plist(job_id, command, schedule, notify)
    IN  /\ cron_script' = script_after(job_id, command, notify)
        /\ IF rc # 0
           THEN /\ cron_plist' = [cron_plist EXCEPT ![job_id] = plist]
                /\ cron_loaded' = cron_loaded
                /\ cron_data' = init_dirs(cron_data)
                /\ cron_exit' = "1: launchctl load failed"
           ELSE /\ cron_plist' = [cron_plist EXCEPT ![job_id] = plist]
                /\ cron_loaded' = [cron_loaded EXCEPT ![job_id] = plist]
                /\ cron_data' = [exists |-> TRUE,
                                 jobs |-> [cron_data.jobs EXCEPT ![job_id] =
                                             [command |-> command,
                                              schedule |-> schedule,
                                              notify |-> notify]]]
                /\ cron_exit' = "0"

\* the part of add_job after the test for an existing id: the plist is
\* written and loaded, and the entry saved if the load succeeded
register(job_id, command, schedule, notify, rc) ==
    LET plist == generate_plist(job_id, command, schedule, notify)
    IN  /\ cron_script' = script_after(job_id, command, notify)
        /\ IF rc # 0
           THEN /\ cron_plist' = [cron_plist EXCEPT ![job_id] = NoFile]
                /\ cron_loaded' = cron_loaded
                /\ cron_data' = init_dirs(cron_data)
                /\ cron_exit' = "1: launchctl load failed"
           ELSE /\ cron_plist' = [cron_plist EXCEPT ![job_id] = plist]
                /\ cron_loaded' = [cron_loaded EXCEPT ![job_id] = plist]
                /\ cron_data' = [exists |-> TRUE,
                                 jobs |-> [cron_data.jobs EXCEPT ![job_id] =
                                             [command |-> command,
                                              schedule |-> schedule,
                                              notify |-> notify]]]
                /\ cron_exit' = "0"

add_job ==
    \E job_id \in JobIds, command \in Commands, schedule \in Schedules,
       notify \in BOOLEAN, rc \in LoadCodes :
        /\ cron_call' = [fn |-> "add_job", job_id |-> job_id,
                         command |-> command, schedule |-> schedule,
                         notify |-> IF notify THEN "True" ELSE "False"]
        /\ IF cron_data.jobs[job_id] # NoJob
           THEN /\ cron_exit' = "1: job exists"
                /\ cron_data' = init_dirs(cron_data)
                /\ UNCHANGED <<cron_plist, cron_script, cron_loaded>>
           ELSE register(job_id, command, schedule, notify, rc)
        /\ RestUnchangedByCron

remove_job ==
    \E job_id \in JobIds :
        /\ cron_call' = [fn |-> "remove_job", job_id |-> job_id,
                         command |-> "", schedule |-> "", notify |-> ""]
        /\ IF cron_data.jobs[job_id] = NoJob
           THEN /\ cron_exit' = "1: no such job"
                /\ cron_data' = init_dirs(cron_data)
                /\ UNCHANGED <<cron_plist, cron_script, cron_loaded>>
           ELSE /\ cron_loaded' = IF cron_plist[job_id] # NoFile
                                  THEN [cron_loaded EXCEPT ![job_id] = NoFile]
                                  ELSE cron_loaded
                /\ cron_plist' = [cron_plist EXCEPT ![job_id] = NoFile]
                /\ cron_script' = [cron_script EXCEPT ![job_id] = ""]
                /\ cron_data' = [exists |-> TRUE,
                                 jobs |-> [cron_data.jobs EXCEPT ![job_id] = NoJob]]
                /\ cron_exit' = "0"
        /\ RestUnchangedByCron

\* the arguments of update_job that may be None
Optional(values) == values \cup {"None"}

update_job ==
    \E job_id \in JobIds, command \in Optional(Commands),
       schedule \in Optional(Schedules),
       notify \in Optional({"True", "False"}), rc \in LoadCodes :
        /\ cron_call' = [fn |-> "update_job", job_id |-> job_id,
                         command |-> command, schedule |-> schedule,
                         notify |-> notify]
        /\ IF cron_data.jobs[job_id] = NoJob
           THEN /\ cron_exit' = "1: no such job"
                /\ cron_data' = init_dirs(cron_data)
                /\ UNCHANGED <<cron_plist, cron_script, cron_loaded>>
           ELSE LET old == cron_data.jobs[job_id]
                    info == [command |-> IF command = "None" THEN old.command
                                         ELSE command,
                             schedule |-> IF schedule = "None" THEN old.schedule
                                          ELSE schedule,
                             notify |-> IF notify = "None" THEN old.notify
                                        ELSE notify = "True"]
                    plist == generate_plist(job_id, info.command,
                                            info.schedule, info.notify)
                    unloaded == IF cron_plist[job_id] # NoFile
                                THEN [cron_loaded EXCEPT ![job_id] = NoFile]
                                ELSE cron_loaded
                IN  /\ cron_script' = script_after(job_id, info.command,
                                                   info.notify)
                    /\ cron_plist' = [cron_plist EXCEPT ![job_id] = plist]
                    /\ IF rc # 0
                       THEN /\ cron_loaded' = unloaded
                            /\ cron_data' = cron_data
                            /\ cron_exit' = "1: launchctl load failed"
                       ELSE /\ cron_loaded' = [unloaded EXCEPT ![job_id] = plist]
                            /\ cron_data' = [exists |-> TRUE,
                                             jobs |-> [cron_data.jobs
                                                 EXCEPT ![job_id] = info]]
                            /\ cron_exit' = "0"
        /\ RestUnchangedByCron

NextCron ==
    \/ add_job
    \/ remove_job
    \/ update_job

SpecCron == InitCron /\ [][NextCron]_vars

\* C24: when launchctl load fails in add_job the call exits with an error,
\* the job's plist file does not exist afterwards and jobs.json has no
\* entry for the id (and no other entry changed); add_job for an id that
\* is in jobs.json exits with an error and leaves jobs.json, every plist,
\* every wrapper script and launchd as they were.
C24_AddJobFailure ==
    [][cron_call'.fn = "add_job" =>
          LET j == cron_call'.job_id
          IN  /\ (cron_exit' = "1: launchctl load failed") =>
                    /\ cron_data.jobs[j] = NoJob
                    /\ cron_plist'[j] = NoFile
                    /\ cron_data'.jobs = cron_data.jobs
                    /\ cron_loaded' = cron_loaded
              /\ (cron_data.jobs[j] # NoJob) <=> (cron_exit' = "1: job exists")
              /\ (cron_exit' = "1: job exists") =>
                    /\ cron_data' = cron_data
                    /\ cron_plist' = cron_plist
                    /\ cron_script' = cron_script
                    /\ cron_loaded' = cron_loaded
              /\ cron_exit' \in {"0", "1: launchctl load failed", "1: job exists"}
      ]_vars

\* C24 witness: add_job of j2 has failed in launchctl load while j1 is
\* registered: j2 has no plist and no entry
C24_Witness ==
    /\ cron_call.fn = "add_job" /\ cron_call.job_id = "j2"
    /\ cron_exit = "1: launchctl load failed"
    /\ cron_plist["j2"] = NoFile
    /\ cron_data.jobs["j2"] = NoJob
    /\ cron_data.jobs["j1"] # NoJob /\ cron_loaded["j1"] # NoFile

\* C30: when update_job fails in launchctl load, the entry of the job in
\* jobs.json, the content of its plist file and what launchd has loaded
\* for it are what they were before the call.
C30_UpdateFailureLeavesJob ==
    [][(cron_call'.fn = "update_job"
          /\ cron_exit' = "1: launchctl load failed") =>
          LET j == cron_call'.job_id
          IN  /\ cron_data'.jobs[j] = cron_data.jobs[j]
              /\ cron_plist'[j] = cron_plist[j]
              /\ cron_loaded'[j] = cron_loaded[j]
      ]_vars

====
